---- MODULE Spec2Model ----
(***************************************************************************)
(* CatDist: a Flask catalog/cart demo backed by spreadsheet files.         *)
(* State machine of app/routes.py: the session (cart, coupon, shipping,    *)
(* user), the entity file pairs (xlsx + csv), admin.json, and one action   *)
(* per request handler.  Money is in integer cents; a Python float is a    *)
(* value of kind "num" (cents) or "nan".                                   *)
(***************************************************************************)
EXTENDS Integers, Sequences, FiniteSets, TLC

VARIABLES
    cart,            \* session["cart"]: insertion-ordered dict, as a sequence of [pid, qty]
    coupon_code,     \* session["coupon_code"]: a value of kind "str", or None
    shipping_value,  \* session["shipping_value"]: a float, or None when never set
    user_email,      \* session["user_email"]: a value of kind "str", or None
    files,           \* data/<entity>.xlsx and data/<entity>.csv, per entity
    admin,           \* data/admin.json
    lastCoupon,      \* the text last submitted in the coupon form field (history)
    inflight,        \* per request thread: the import it is serving and where it is
    req,             \* the request being answered
    resp             \* its response

vars ==
    <<cart, coupon_code, shipping_value, user_email, files, admin, lastCoupon, inflight, req, resp>>

session == <<cart, coupon_code, shipping_value, user_email>>

(***************************************************************************)
(* Bounds of the model.                                                    *)
(***************************************************************************)
MaxUnits == 3        \* most units a cart holds, summed over its entries
MaxRows == 2         \* most records in an uploaded supplier sheet
MaxItems == 40       \* most entries of a cart that is exported to pdf

(***************************************************************************)
(* Python values: numbers (cents), NaN, strings, None.                     *)
(***************************************************************************)
\* A string is a sequence of pieces (see Text below); S(p) is a one-piece string.
Num(n) == [k |-> "num", v |-> n, s |-> <<>>]
Str(t) == [k |-> "str", v |-> 0, s |-> t]
S(p) == Str(<<p>>)
NaN == [k |-> "nan", v |-> 0, s |-> <<>>]
None == [k |-> "none", v |-> 0, s |-> <<>>]

IsNum(x) == x.k = "num"
IsNaN(x) == x.k = "nan"

\* bool(x): None, 0 and "" are falsy; NaN is truthy.
Truthy(x) ==
    CASE x.k = "none" -> FALSE
      [] x.k = "num" -> x.v # 0
      [] x.k = "str" -> x.s # <<>>
      [] OTHER -> TRUE

\* x or d
PyOr(x, d) == IF Truthy(x) THEN x ELSE d

\* float arithmetic: NaN propagates.
FAdd(a, b) == IF IsNaN(a) \/ IsNaN(b) THEN NaN ELSE Num(a.v + b.v)
FSub(a, b) == IF IsNaN(a) \/ IsNaN(b) THEN NaN ELSE Num(a.v - b.v)
FMulInt(a, n) == IF IsNaN(a) THEN NaN ELSE Num(a.v * n)

\* Python max(a, b): a, unless b > a; every comparison with NaN is False.
PyMax(a, b) == IF IsNum(a) /\ IsNum(b) /\ b.v > a.v THEN b ELSE a

Abs(n) == IF n < 0 THEN -n ELSE n

\* round(total * rate, 2) with rate = pct/100: the nearest cent.  An exact half
\* cent goes up or down with the binary value of the float product, so both
\* neighbours are outcomes.
RoundCents(total, pct) ==
    IF IsNaN(total) THEN {NaN}
    ELSE LET x == total.v * pct
             lo == x \div 100
         IN  {Num(d) : d \in {c \in {lo, lo + 1} : 2 * Abs(100 * c - x) <= 100}}

(***************************************************************************)
(* Text: a string the handlers take apart is a sequence of pieces; a piece *)
(* is a run of letters and digits or a single other character.             *)
(***************************************************************************)
UpperPiece(p) ==
    CASE p = "desconto10" -> "DESCONTO10"
      [] p = "Desconto5" -> "DESCONTO5"
      [] p = "outro" -> "OUTRO"
      [] OTHER -> p

LowerPiece(p) ==
    CASE p = "CSV" -> "csv"
      [] p = "XLSX" -> "xlsx"
      [] p = "TXT" -> "txt"
      [] OTHER -> p

RECURSIVE LStrip(_, _)
LStrip(t, chars) ==
    IF t # <<>> /\ Head(t) \in chars THEN LStrip(Tail(t), chars) ELSE t

RECURSIVE RStrip(_, _)
RStrip(t, chars) ==
    IF t # <<>> /\ t[Len(t)] \in chars THEN RStrip(SubSeq(t, 1, Len(t) - 1), chars) ELSE t

\* str.strip(chars); str.strip() drops white space
StripChars(t, chars) == RStrip(LStrip(t, chars), chars)
Strip(t) == StripChars(t, {" "})

\* str.upper() / str.lower()
Upper(t) == [i \in 1..Len(t) |-> UpperPiece(t[i])]
Lower(t) == [i \in 1..Len(t) |-> LowerPiece(t[i])]

(***************************************************************************)
(* Tables.  A DataFrame is [ok, cols, rows]: cols the column names in      *)
(* order, each row a function from the column names to cells; ok = FALSE   *)
(* is the None that _read_tabular returns.  A file is [st, cols, rows]     *)
(* with st one of "absent", "ok", "corrupt".                               *)
(***************************************************************************)
Range(f) == {f[i] : i \in DOMAIN f}

DF(cols, rows) == [ok |-> TRUE, cols |-> cols, rows |-> rows]
NoDF == [ok |-> FALSE, cols |-> <<>>, rows |-> <<>>]

\* The request threads that serve imports step by step.  A thread is idle,
\* or has parsed an upload for an entity and is about to write the xlsx file
\* ("xlsx"), has written it and is about to write the csv file ("csv"), or
\* has returned ("done"; e and df are those of the import it served).
Threads == {1, 2}
NoInflight == [t \in Threads |-> [pc |-> "idle", e |-> "", df |-> NoDF]]

AbsentFile == [st |-> "absent", cols |-> <<>>, rows |-> <<>>]
CorruptFile == [st |-> "corrupt", cols |-> <<>>, rows |-> <<>>]
NoFiles == [xlsx |-> AbsentFile, csv |-> AbsentFile]

\* The amounts (cents) that occur in the datasets of the model; a number is
\* written to text as its digits, and only such a text reads back as a number.
Amounts == {-500, 0, 500, 800, 900, 1000, 1200, 1250}

NumPiece(n) == ToString(n)

\* digits with leading zeros: another text of the same number
PaddedPiece(n) == "0" \o ToString(n)

IsNumText(t) ==
    Len(t) = 1 /\ \E n \in Amounts : t[1] = NumPiece(n) \/ (n > 0 /\ t[1] = PaddedPiece(n))
NumOfText(t) ==
    CHOOSE n \in Amounts : t[1] = NumPiece(n) \/ (n > 0 /\ t[1] = PaddedPiece(n))

\* float(text): surrounding white space is ignored; [ok |-> FALSE] is ValueError.
FloatOfText(t) ==
    LET u == Strip(t)
    IN  IF IsNumText(u) THEN [ok |-> TRUE, val |-> Num(NumOfText(u))]
        ELSE IF u = <<"nan">> THEN [ok |-> TRUE, val |-> NaN]
        ELSE [ok |-> FALSE, val |-> NaN]

\* DataFrame.to_excel: one typed cell per value, None and NaN as empty cells.
ExcelCell(c) == IF c.k = "none" THEN NaN ELSE c

\* DataFrame.to_csv: every value as text, None and NaN as the empty text.
CsvCell(c) ==
    CASE c.k = "num" -> S(NumPiece(c.v))
      [] c.k = "str" -> c
      [] OTHER -> Str(<<>>)

ToExcel(df) ==
    [st |-> "ok", cols |-> df.cols,
     rows |-> [i \in 1..Len(df.rows) |-> [c \in Range(df.cols) |-> ExcelCell(df.rows[i][c])]]]

ToCsv(df) ==
    [st |-> "ok", cols |-> df.cols,
     rows |-> [i \in 1..Len(df.rows) |-> [c \in Range(df.cols) |-> CsvCell(df.rows[i][c])]]]

\* pd.read_excel: the cells as typed in the sheet.
ReadExcel(f) == DF(f.cols, f.rows)

\* pd.read_csv: a column whose non-empty cells are all numbers is numeric,
\* any other column is text; an empty cell is NaN in both.
CsvNumericCol(f, c) == \A i \in 1..Len(f.rows) : f.rows[i][c].s = <<>> \/ IsNumText(f.rows[i][c].s)

CsvRead(f, c, x) ==
    IF x.s = <<>> THEN NaN
    ELSE IF CsvNumericCol(f, c) THEN Num(NumOfText(x.s)) ELSE x

ReadCsv(f) ==
    DF(f.cols, [i \in 1..Len(f.rows) |-> [c \in Range(f.cols) |-> CsvRead(f, c, f.rows[i][c])]])

ReadTabularNoFallback(pair) ==
    IF pair.xlsx.st = "ok" THEN ReadExcel(pair.xlsx) ELSE NoDF

\* _read_tabular: the xlsx file when it exists and parses, else the csv file,
\* else None.
_read_tabular(pair) ==
    IF pair.xlsx.st = "ok" THEN ReadExcel(pair.xlsx)
    ELSE IF pair.csv.st = "ok" THEN ReadCsv(pair.csv)
    ELSE NoDF

\* row.get(col)
RowGet(row, col) == IF col \in DOMAIN row THEN row[col] ELSE None

\* str(value)
StrOf(c) ==
    CASE c.k = "str" -> c.s
      [] c.k = "num" -> <<NumPiece(c.v)>>
      [] c.k = "nan" -> <<"nan">>
      [] OTHER -> <<"None">>

\* _safe_float: None for NaN, None and anything float() rejects.
_safe_float(c) ==
    CASE c.k = "num" -> c
      [] c.k = "str" -> IF FloatOfText(c.s).ok THEN FloatOfText(c.s).val ELSE None
      [] OTHER -> None

\* float(row.get("price") or 0.0): 0.0 for a missing, zero or "" cell; NaN is
\* truthy and stays NaN; a text that is no number raises ValueError.
PriceRaises(c) ==
    LET x == PyOr(c, Num(0)) IN x.k = "str" /\ ~FloatOfText(x.s).ok

PriceOf(c) ==
    LET x == PyOr(c, Num(0))
    IN  IF x.k = "str" THEN FloatOfText(x.s).val ELSE x

ProductOfRow(row) ==
    [id |-> StrOf(RowGet(row, "id")),
     supplier_id |-> StrOf(RowGet(row, "supplier_id")),
     name |-> StrOf(RowGet(row, "name")),
     price |-> PriceOf(RowGet(row, "price")),
     promo_price |-> _safe_float(RowGet(row, "promo_price"))]

\* load_products raises when the price of some row does.
LoadProductsRaises(fs) ==
    LET df == _read_tabular(fs["products"])
    IN  df.ok /\ \E i \in 1..Len(df.rows) : PriceRaises(RowGet(df.rows[i], "price"))

load_products(fs) ==
    LET df == _read_tabular(fs["products"])
    IN  IF ~df.ok THEN <<>>
        ELSE [i \in 1..Len(df.rows) |-> ProductOfRow(df.rows[i])]

\* logo_path: "images/<logo>" for a non-empty text, else None
LogoPathOf(c) == IF c.k = "str" /\ c.s # <<>> THEN Str(<<"images/">> \o c.s) ELSE None

SupplierOfRow(row) ==
    [id |-> StrOf(RowGet(row, "id")),
     name |-> StrOf(RowGet(row, "name")),
     logo_path |-> LogoPathOf(RowGet(row, "logo"))]

load_suppliers(fs) ==
    LET df == _read_tabular(fs["suppliers"])
    IN  IF ~df.ok THEN <<>>
        ELSE [i \in 1..Len(df.rows) |-> SupplierOfRow(df.rows[i])]

\* str(row.get(col)) if row.get(col) is not None else None
OptStr(c) == IF c.k = "none" THEN None ELSE Str(StrOf(c))

ClientOfRow(row) ==
    [id |-> StrOf(RowGet(row, "id")),
     name |-> StrOf(RowGet(row, "name")),
     email |-> StrOf(RowGet(row, "email")),
     password |-> StrOf(RowGet(row, "password")),
     phone |-> OptStr(RowGet(row, "phone")),
     address |-> OptStr(RowGet(row, "address")),
     state |-> OptStr(RowGet(row, "state")),
     city |-> OptStr(RowGet(row, "city")),
     cep |-> OptStr(RowGet(row, "cep"))]

load_clients(fs) ==
    LET df == _read_tabular(fs["clients"])
    IN  IF ~df.ok THEN <<>>
        ELSE [i \in 1..Len(df.rows) |-> ClientOfRow(df.rows[i])]

(***************************************************************************)
(* Writing an entity: the canonical columns, in order, to both files.      *)
(***************************************************************************)
ClientCols == <<"id", "name", "email", "password", "phone", "address", "state", "city", "cep">>
SupplierCols == <<"id", "name", "logo">>
ProductCols == <<"id", "supplier_id", "name", "price", "promo_price", "image">>

Entities == {"clients", "suppliers", "products"}

WantedCols(e) ==
    CASE e = "clients" -> ClientCols
      [] e = "suppliers" -> SupplierCols
      [] OTHER -> ProductCols

CanonicalKeepsExtra(wanted, df) ==
    LET cols == df.cols \o SelectSeq(wanted, LAMBDA c : c \notin Range(df.cols))
    IN  DF(cols,
           [i \in 1..Len(df.rows) |->
               [c \in Range(cols) |-> IF c \in Range(df.cols) THEN df.rows[i][c] ELSE None]])

\* for col in wanted_cols: if col not in df.columns: df[col] = None
\* df = df[wanted_cols]
Canonical(wanted, df) ==
    DF(wanted,
       [i \in 1..Len(df.rows) |->
           [c \in Range(wanted) |-> IF c \in Range(df.cols) THEN df.rows[i][c] ELSE None]])

\* _save_clients_dataframe, _save_suppliers_dataframe, _save_products_dataframe
SaveDataframe(wanted, df) ==
    [xlsx |-> ToExcel(Canonical(wanted, df)), csv |-> ToCsv(Canonical(wanted, df))]

_save_clients_dataframe(df) == SaveDataframe(ClientCols, df)
_save_suppliers_dataframe(df) == SaveDataframe(SupplierCols, df)
_save_products_dataframe(df) == SaveDataframe(ProductCols, df)

SaveEntity(e, df) ==
    CASE e = "clients" -> _save_clients_dataframe(df)
      [] e = "suppliers" -> _save_suppliers_dataframe(df)
      [] OTHER -> _save_products_dataframe(df)

(***************************************************************************)
(* admin.json                                                              *)
(***************************************************************************)
NoAdminFile == [exists |-> FALSE, email |-> <<>>, password |-> <<>>]
DefaultAdmin == [exists |-> TRUE, email |-> <<"swinck@gmail.com">>, password |-> <<"123456">>]

\* _ensure_admin_file: the file after the call
_ensure_admin_file(a) == IF a.exists THEN a ELSE DefaultAdmin

\* load_admin: the record read (after _ensure_admin_file)
load_admin(a) == _ensure_admin_file(a)

SaveAdminOverwrites(a, email, password) ==
    [exists |-> TRUE,
     email |-> IF email.k = "str" THEN email.s ELSE <<>>,
     password |-> IF password.k = "str" THEN password.s ELSE <<>>]

\* save_admin: the file after the call; email and password are a text or None
save_admin(a, email, password) ==
    [exists |-> TRUE,
     email |-> IF Truthy(email) THEN email.s ELSE load_admin(a).email,
     password |-> IF Truthy(password) THEN password.s ELSE load_admin(a).password]

(***************************************************************************)
(* The session cart: a dict in insertion order.                            *)
(***************************************************************************)
CartKeys(c) == {c[i].pid : i \in 1..Len(c)}

CartIndex(c, pid) == CHOOSE i \in 1..Len(c) : c[i].pid = pid

\* cart.get(pid, 0)
CartGet(c, pid) == IF pid \in CartKeys(c) THEN c[CartIndex(c, pid)].qty ELSE 0

\* cart[pid] = q: an existing key keeps its place, a new key goes last
CartSet(c, pid, q) ==
    IF pid \in CartKeys(c)
    THEN [c EXCEPT ![CartIndex(c, pid)].qty = q]
    ELSE Append(c, [pid |-> pid, qty |-> q])

CartPopClears(c, pid) == <<>>

\* cart.pop(pid)
CartPop(c, pid) == SelectSeq(c, LAMBDA e : e.pid # pid)

\* the units in the cart
RECURSIVE CartUnits(_)
CartUnits(c) == IF c = <<>> THEN 0 ELSE Head(c).qty + CartUnits(Tail(c))

\* int(text): surrounding white space is ignored; [ok |-> FALSE] is ValueError.
IntPieces == {"-1", "0", "1", "2"}

IntOfPiece(p) ==
    CASE p = "-1" -> -1
      [] p = "0" -> 0
      [] p = "1" -> 1
      [] OTHER -> 2

IntOfText(t) ==
    LET u == Strip(t)
    IN  IF Len(u) = 1 /\ u[1] \in IntPieces THEN [ok |-> TRUE, val |-> IntOfPiece(u[1])]
        ELSE [ok |-> FALSE, val |-> 0]

\* int(request.form.get("qty", 1)): a missing field is 1
QtyOfForm(raw) == IF raw.k = "none" THEN [ok |-> TRUE, val |-> 1] ELSE IntOfText(raw.s)

ClampQtyUnclamped(qty) == qty

\* max(qty, 1)
ClampQty(qty) == IF qty > 1 THEN qty ELSE 1

AddedQtyOverwrites(prev, qty) == ClampQty(qty)

\* cart.get(product_id, 0) + max(qty, 1)
AddedQty(prev, qty) == prev + ClampQty(qty)

(***************************************************************************)
(* Responses.                                                              *)
(***************************************************************************)
NoView ==
    [items |-> <<>>, total_value |-> Num(0), discount_rate |-> 0, discount_value |-> Num(0),
     coupon_code |-> None, shipping_value |-> Num(0), grand_total |-> Num(0)]

\* a redirect with a flashed message ("" when none is flashed)
Redirect(msg) == [kind |-> "redirect", flash |-> msg, stage |-> "", view |-> NoView, rows |-> <<>>]
\* an unhandled exception: HTTP 500, nothing stored
Error500 == [kind |-> "error", flash |-> "", stage |-> "", view |-> NoView, rows |-> <<>>]
Page(v) == [kind |-> "cart", flash |-> "", stage |-> "", view |-> v, rows |-> <<>>]
\* a rendered list page: the records handed to the template
ListPage(kind, rows) == [kind |-> kind, flash |-> "", stage |-> "", view |-> NoView, rows |-> rows]
NoResponse == [kind |-> "none", flash |-> "", stage |-> "", view |-> NoView, rows |-> <<>>]

\* a request: the handler, its arguments, the sheet an upload parses to, and
\* whether it repeats the import that was saved just before it
Request(op, a, b) == [op |-> op, a |-> a, b |-> b, df |-> NoDF, again |-> FALSE]

(***************************************************************************)
(* Current user.                                                           *)
(***************************************************************************)
NoUser ==
    [found |-> FALSE, id |-> <<>>, name |-> <<>>, email |-> <<>>, password |-> <<>>,
     phone |-> None, address |-> None, state |-> None, city |-> None, cep |-> None]

UserOf(c) ==
    [found |-> TRUE, id |-> c.id, name |-> c.name, email |-> c.email, password |-> c.password,
     phone |-> c.phone, address |-> c.address, state |-> c.state, city |-> c.city,
     cep |-> c.cep]

\* next((c for c in load_clients() if c.email == user_email), None)
FirstClientByEmail(clients, email) ==
    IF \E i \in 1..Len(clients) : clients[i].email = email
    THEN UserOf(clients[CHOOSE i \in 1..Len(clients) :
                           /\ clients[i].email = email
                           /\ \A j \in 1..(i - 1) : clients[j].email # email])
    ELSE NoUser

\* next((c for c in load_clients() if c.email == email and c.password == password), None)
FirstClientByLogin(clients, email, password) ==
    IF \E i \in 1..Len(clients) : clients[i].email = email /\ clients[i].password = password
    THEN UserOf(clients[CHOOSE i \in 1..Len(clients) :
                           /\ clients[i].email = email /\ clients[i].password = password
                           /\ \A j \in 1..(i - 1) :
                                  ~(clients[j].email = email /\ clients[j].password = password)])
    ELSE NoUser

CurrentUserOfNoSession(ue, fs, a) == NoUser

\* _get_current_user: the administrator, or the first client with the
\* session's email, or None
_get_current_user(ue, fs, a) ==
    IF ~Truthy(ue) THEN NoUser
    ELSE IF ue.s = load_admin(a).email
         THEN [found |-> TRUE, id |-> <<"admin">>, name |-> <<"Administrador">>,
               email |-> load_admin(a).email, password |-> load_admin(a).password,
               phone |-> None, address |-> None, state |-> None, city |-> None, cep |-> None]
         ELSE FirstClientByEmail(load_clients(fs), ue.s)

\* admin.json after _get_current_user: load_admin creates the file, but only
\* when the session holds a user_email
AdminAfterCurrentUser(ue, a) == IF Truthy(ue) THEN _ensure_admin_file(a) ELSE a

(***************************************************************************)
(* Pricing (view_cart).                                                    *)
(***************************************************************************)
\* products = {p.id: p for p in load_products()}: a later record with the same
\* id replaces an earlier one
ProductIds(plist) == {plist[i].id : i \in 1..Len(plist)}

ProductsGet(plist, pid) ==
    plist[CHOOSE i \in 1..Len(plist) :
            plist[i].id = pid /\ \A j \in (i + 1)..Len(plist) : plist[j].id # pid]

EffectivePriceLowest(p) ==
    IF p.promo_price.k = "num" /\ p.price.k = "num" /\ p.promo_price.v < p.price.v
    THEN p.promo_price ELSE p.price

\* price = product.promo_price if product.promo_price is not None else product.price
EffectivePrice(p) == IF p.promo_price.k # "none" THEN p.promo_price ELSE p.price

CartItem(plist, e) ==
    [pid |-> e.pid, qty |-> e.qty,
     price |-> EffectivePrice(ProductsGet(plist, e.pid)),
     line_total |-> FMulInt(EffectivePrice(ProductsGet(plist, e.pid)), e.qty)]

\* the loop over cart.items(): entries without a product are skipped
RECURSIVE CartItems(_, _)
CartItems(plist, c) ==
    IF c = <<>> THEN <<>>
    ELSE IF Head(c).pid \in ProductIds(plist)
         THEN <<CartItem(plist, Head(c))>> \o CartItems(plist, Tail(c))
         ELSE CartItems(plist, Tail(c))

\* total_value = 0.0; total_value += line_total
RECURSIVE SumLines(_)
SumLines(items) ==
    IF items = <<>> THEN Num(0)
    ELSE FAdd(SumLines(SubSeq(items, 1, Len(items) - 1)), items[Len(items)].line_total)

CouponRateSwapped(code) ==
    IF code = S("DESCONTO10") THEN 5
    ELSE IF code = S("DESCONTO5") THEN 10
    ELSE 0

\* coupon_discounts.get(coupon_code, 0.0), in percent
CouponRate(code) ==
    IF code = S("DESCONTO10") THEN 10
    ELSE IF code = S("DESCONTO5") THEN 5
    ELSE 0

\* float(session.get("shipping_value", 0.0) or 0.0)
ShippingOf(sv) == PyOr(sv, Num(0))

\* grand_total = max(total_value - discount_value + shipping_value, 0.0)
GrandTotal(total, discount, shipping) == PyMax(FAdd(FSub(total, discount), shipping), Num(0))

\* the values view_cart hands to the template, for a rounded discount d
CartView(plist, c, code, sv, d) ==
    [items |-> CartItems(plist, c),
     total_value |-> SumLines(CartItems(plist, c)),
     discount_rate |-> CouponRate(code),
     discount_value |-> d,
     coupon_code |-> code,
     shipping_value |-> ShippingOf(sv),
     grand_total |-> GrandTotal(SumLines(CartItems(plist, c)), d, ShippingOf(sv))]

(***************************************************************************)
(* Inputs of the requests and the datasets found in data/ at start.        *)
(***************************************************************************)
PIDs == {<<"P1">>, <<"P2">>, <<"P3">>}

\* the qty form field: missing, or a text
QtyInputs == {None, S("-1"), S("0"), S("1"), S("2"), Str(<<" ", "2">>), S("abc"), Str(<<>>)}

\* the coupon form field (a missing field is "")
CouponInputs ==
    {<<"DESCONTO10">>, <<"DESCONTO5">>, <<"desconto10">>, <<" ", "Desconto5", " ">>,
     <<"OUTRO">>, <<>>}

\* the shipping form field: missing, or a text
ShippingInputs == {None, Str(<<>>), S("500"), S("-500"), S("abc"), S("nan")}

ProductRow(id, price, promo) ==
    [id |-> S(id), supplier_id |-> S("forn1"), name |-> S("Produto"),
     price |-> price, promo_price |-> promo, image |-> NaN]

ClientRow(id, email, password) ==
    [id |-> S(id), name |-> S("Cliente Demo"), email |-> S(email), password |-> S(password),
     phone |-> NaN, address |-> NaN, state |-> NaN, city |-> NaN, cep |-> NaN]

\* P1 on promotion, P2 at a price whose 5% ends in half a cent, no P3
CatalogPromo ==
    DF(ProductCols, <<ProductRow("P1", Num(1000), Num(900)), ProductRow("P2", Num(1250), NaN)>>)
\* a promo price above the price, an empty price cell
CatalogEmptyPrice ==
    DF(ProductCols, <<ProductRow("P1", Num(1000), Num(1200)), ProductRow("P2", NaN, NaN),
                      ProductRow("P3", Num(500), NaN)>>)
\* two records with the same id, a negative price
CatalogDuplicate ==
    DF(ProductCols, <<ProductRow("P1", Num(1000), NaN), ProductRow("P1", Num(800), NaN),
                      ProductRow("P2", Num(-500), NaN)>>)
\* a price cell that is no number
CatalogBadPrice ==
    DF(ProductCols, <<ProductRow("P1", S("abc"), NaN), ProductRow("P2", Num(500), NaN)>>)

StoredCatalogs ==
    {NoFiles} \cup {_save_products_dataframe(df) :
                        df \in {CatalogPromo, CatalogEmptyPrice, CatalogDuplicate, CatalogBadPrice}}

SeedClients == DF(ClientCols, <<ClientRow("c1", "demo@teste.com", "123456")>>)

(***************************************************************************)
(* Cart handlers.                                                          *)
(***************************************************************************)
\* POST /cart/add/<product_id>
cart_add(pid, raw) ==
    /\ req' = Request("cart_add", pid, raw)
    /\ IF ~QtyOfForm(raw).ok
       THEN /\ resp' = Error500
            /\ UNCHANGED cart
       ELSE /\ CartUnits(cart) + ClampQty(QtyOfForm(raw).val) <= MaxUnits
            /\ cart' = CartSet(cart, pid, AddedQty(CartGet(cart, pid), QtyOfForm(raw).val))
            /\ resp' = Redirect("Produto adicionado ao carrinho.")
    /\ UNCHANGED <<coupon_code, shipping_value, user_email, files, admin, lastCoupon, inflight>>

\* POST /cart/remove/<product_id>
cart_remove(pid) ==
    /\ req' = Request("cart_remove", pid, None)
    /\ IF pid \in CartKeys(cart)
       THEN /\ cart' = CartPop(cart, pid)
            /\ resp' = Redirect("Produto removido do carrinho.")
       ELSE /\ resp' = Redirect("")
            /\ UNCHANGED cart
    /\ UNCHANGED <<coupon_code, shipping_value, user_email, files, admin, lastCoupon, inflight>>

\* GET /cart
view_cart ==
    /\ req' = Request("view_cart", None, None)
    /\ IF LoadProductsRaises(files)
       THEN /\ resp' = Error500
            /\ UNCHANGED admin
       ELSE /\ \E d \in RoundCents(SumLines(CartItems(load_products(files), cart)),
                                   CouponRate(coupon_code)) :
                 resp' = Page(CartView(load_products(files), cart, coupon_code,
                                       shipping_value, d))
            /\ admin' = AdminAfterCurrentUser(user_email, admin)
    /\ UNCHANGED <<cart, coupon_code, shipping_value, user_email, files, lastCoupon, inflight>>

\* POST /cart/coupon
apply_coupon(raw) ==
    /\ req' = Request("apply_coupon", Str(raw), None)
    /\ lastCoupon' = Str(raw)
    /\ IF Upper(Strip(raw)) \in {<<"DESCONTO10">>, <<"DESCONTO5">>}
       THEN /\ coupon_code' = Str(Upper(Strip(raw)))
            /\ resp' = Redirect("Cupom aplicado.")
       ELSE /\ coupon_code' = None
            /\ resp' = Redirect("Cupom invalido removido.")
    /\ UNCHANGED <<cart, shipping_value, user_email, files, admin, inflight>>

\* float(request.form.get("shipping", 0) or 0), negatives and ValueError as 0.0
ShippingOfForm(raw) ==
    LET x == PyOr(raw, Num(0))
    IN  IF x.k = "str"
        THEN IF ~FloatOfText(x.s).ok THEN Num(0)
             ELSE IF IsNum(FloatOfText(x.s).val) /\ FloatOfText(x.s).val.v < 0 THEN Num(0)
             ELSE FloatOfText(x.s).val
        ELSE x

\* POST /cart/shipping
set_shipping(raw) ==
    /\ req' = Request("set_shipping", raw, None)
    /\ shipping_value' = ShippingOfForm(raw)
    /\ resp' = Redirect("Frete atualizado.")
    /\ UNCHANGED <<cart, coupon_code, user_email, files, admin, lastCoupon, inflight>>

\* POST /checkout
checkout_submit ==
    /\ req' = Request("checkout_submit", None, None)
    /\ admin' = AdminAfterCurrentUser(user_email, admin)
    /\ IF _get_current_user(user_email, files, admin).found
       THEN /\ cart' = <<>>
            /\ resp' = Redirect("Pedido finalizado! Obrigado pela compra.")
       ELSE /\ resp' = Redirect("")
            /\ UNCHANGED cart
    /\ UNCHANGED <<coupon_code, shipping_value, user_email, files, lastCoupon, inflight>>

(***************************************************************************)
(* Login and logout.                                                       *)
(***************************************************************************)
LoginInputs ==
    {[email |-> <<"demo@teste.com">>, password |-> <<"123456">>],
     [email |-> <<" ", "demo@teste.com">>, password |-> <<"123456">>],
     [email |-> <<"demo@teste.com">>, password |-> <<"errada">>],
     [email |-> <<"swinck@gmail.com">>, password |-> <<"123456">>]}

\* POST /login
login_submit(email, password) ==
    /\ req' = Request("login_submit", Str(email), Str(password))
    /\ admin' = _ensure_admin_file(admin)
    /\ IF Strip(email) = load_admin(admin).email /\ password = load_admin(admin).password
       THEN /\ user_email' = Str(Strip(email))
            /\ resp' = Redirect("Bem-vindo(a), Administrador(a)!")
       ELSE LET client == FirstClientByLogin(load_clients(files), Strip(email), password)
            IN  IF ~client.found
                THEN /\ resp' = Redirect("Credenciais invalidas.")
                     /\ UNCHANGED user_email
                ELSE /\ user_email' = Str(client.email)
                     /\ resp' = Redirect("Bem-vindo(a)!")
    /\ UNCHANGED <<cart, coupon_code, shipping_value, files, lastCoupon, inflight>>

\* GET /logout
logout ==
    /\ req' = Request("logout", None, None)
    /\ user_email' = None
    /\ resp' = Redirect("Sessao encerrada.")
    /\ UNCHANGED <<cart, coupon_code, shipping_value, files, admin, lastCoupon, inflight>>

(***************************************************************************)
(* Imports.                                                                *)
(***************************************************************************)
\* _is_admin_email: email and email == admin.get("email")
_is_admin_email(email, a) == email # <<>> /\ email = load_admin(a).email

RequireAdminAlwaysPasses(ue, fs, a) == FALSE

\* _require_admin returns the message "Acesso restrito ao administrador."
RequireAdminFails(ue, fs, a) ==
    \/ ~_get_current_user(ue, fs, a).found
    \/ ~_is_admin_email(_get_current_user(ue, fs, a).email, a)

\* werkzeug's secure_filename, on pieces: white space around the name goes and
\* white space inside it becomes "_", path separators count as white space,
\* every character outside [A-Za-z0-9_.-] is dropped, and "." and "_" are
\* stripped from both ends.
FilenameSpace == {" ", "/"}
FilenameDropped == {"~", "!"}

secure_filename(t) ==
    LET joined == [i \in 1..Len(StripChars(t, FilenameSpace)) |->
                      IF StripChars(t, FilenameSpace)[i] \in FilenameSpace THEN "_"
                      ELSE StripChars(t, FilenameSpace)[i]]
    IN  StripChars(SelectSeq(joined, LAMBDA p : p \notin FilenameDropped), {".", "_"})

LastDot(t) == CHOOSE i \in 1..Len(t) : t[i] = "." /\ \A j \in (i + 1)..Len(t) : t[j] # "."

\* ext = filename.rsplit(".", 1)[-1].lower() if "." in filename else ""
ExtOf(t) ==
    IF "." \in Range(t) THEN Lower(SubSeq(t, LastDot(t) + 1, Len(t))) ELSE <<>>

\* pd.read_excel / pd.read_csv on the upload: it parses when the bytes are of
\* the format the extension names, and raises otherwise
ParseOk(ext, up) == up.fmt = ext[1]

StoreImportAppends(fs, e, df) ==
    [fs EXCEPT ![e] = [xlsx |-> [SaveEntity(e, df).xlsx EXCEPT
                                    !.rows = fs[e].xlsx.rows \o SaveEntity(e, df).xlsx.rows],
                       csv |-> [SaveEntity(e, df).csv EXCEPT
                                   !.rows = fs[e].csv.rows \o SaveEntity(e, df).csv.rows]]]

\* _save_<entity>_dataframe(df) in an import handler: the two files of the
\* entity are written anew from the upload, the other entities are untouched
StoreImport(fs, e, df) == [fs EXCEPT ![e] = SaveEntity(e, df)]

ImportDone(e) ==
    CASE e = "clients" -> "Clientes importados com sucesso."
      [] e = "suppliers" -> "Fornecedores importados com sucesso."
      [] OTHER -> "Produtos importados com sucesso."

Answer(msg, stage) ==
    [kind |-> "redirect", flash |-> msg, stage |-> stage, view |-> NoView, rows |-> <<>>]

\* clients_import_submit, suppliers_import_submit, products_import_submit: the
\* three handlers differ in the entity alone.  up.name is the name of the
\* uploaded file (None without a file part), up.fmt the format of its bytes,
\* up.df what they parse to.  The stage of the answer is where the handler
\* returned.
ImportSubmit(e, up) ==
    /\ req' = [Request("import_submit", up.name, S(e)) EXCEPT
                  !.df = up.df,
                  !.again = (/\ req.op = "import_submit" /\ resp.stage = "saved"
                             /\ req.b = S(e) /\ req.df = up.df)]
    /\ admin' = AdminAfterCurrentUser(user_email, admin)
    /\ IF RequireAdminFails(user_email, files, admin)
       THEN /\ resp' = Answer("Acesso restrito ao administrador.", "auth")
            /\ UNCHANGED files
       ELSE IF up.name.k = "none" \/ up.name.s = <<>>
       THEN /\ resp' = Answer("Selecione um arquivo .xlsx ou .csv", "nofile")
            /\ UNCHANGED files
       ELSE IF ExtOf(secure_filename(up.name.s)) \notin {<<"xlsx">>, <<"csv">>}
       THEN /\ resp' = Answer("Formato nao suportado. Use .xlsx ou .csv", "ext")
            /\ UNCHANGED files
       ELSE IF ~ParseOk(ExtOf(secure_filename(up.name.s)), up)
       THEN /\ resp' = Answer("Falha ao importar", "parse")
            /\ UNCHANGED files
       ELSE /\ files' = StoreImport(files, e, up.df)
            /\ resp' = Answer(ImportDone(e), "saved")
    /\ UNCHANGED <<cart, coupon_code, shipping_value, user_email, lastCoupon, inflight>>

\* POST /admin/clients/import
clients_import_submit(up) == ImportSubmit("clients", up)
\* POST /admin/suppliers/import
suppliers_import_submit(up) == ImportSubmit("suppliers", up)
\* POST /admin/products/import
products_import_submit(up) == ImportSubmit("products", up)

(***************************************************************************)
(* Uploads.                                                                *)
(***************************************************************************)
SeqsUpTo(rows, n) == UNION {[1..k -> rows] : k \in 0..n}

SupplierRow(id, name, logo) == [id |-> S(id), name |-> S(name), logo |-> logo]

SeedSuppliers ==
    DF(SupplierCols, <<SupplierRow("forn1", "Fornecedor A", S("logos/fornA.png")),
                       SupplierRow("forn2", "Fornecedor B", S("logos/fornB.png"))>>)

\* supplier sheets with the canonical columns
SupplierSheets ==
    {DF(SupplierCols, rows) :
        rows \in SeqsUpTo({SupplierRow("forn3", "Fornecedor C", S("logos/fornC.png")),
                           SupplierRow("forn4", "Fornecedor D", NaN)}, MaxRows)}

\* supplier sheets without the logo column, with a column the store does not
\* know, in another order
SupplierSheetsOtherColumns ==
    {DF(<<"name", "cnpj", "id">>, rows) :
        rows \in SeqsUpTo({[name |-> S("Fornecedor E"), cnpj |-> Num(1000), id |-> S("forn5")]},
                          MaxRows)}

\* a product sheet without supplier_id, promo_price and image, with a column
\* the store does not know
ProductSheets ==
    {DF(<<"id", "name", "price", "estoque">>,
        <<[id |-> S("P3"), name |-> S("Produto"), price |-> Num(500), estoque |-> Num(0)]>>)}

ClientSheets == {DF(ClientCols, <<ClientRow("c2", "novo@teste.com", "abc")>>)}

SheetsOf(e) ==
    CASE e = "clients" -> ClientSheets
      [] e = "suppliers" -> SupplierSheets \cup SupplierSheetsOtherColumns
      [] OTHER -> ProductSheets

\* an uploaded file: its name (None without a file part) and the format of
\* its bytes
UploadsParsed ==
    {[name |-> Str(<<"dados", ".", "csv">>), fmt |-> "csv"],
     [name |-> Str(<<"dados", ".", "xlsx">>), fmt |-> "xlsx"],
     [name |-> Str(<<"DADOS", ".", "CSV">>), fmt |-> "csv"],
     [name |-> Str(<<"dados", ".", "csv", "~">>), fmt |-> "csv"]}

UploadsOther ==
    {[name |-> None, fmt |-> "csv"],
     [name |-> Str(<<>>), fmt |-> "csv"],
     [name |-> Str(<<"dados", ".", "xlsx">>), fmt |-> "csv"],
     [name |-> Str(<<"dados", ".", "txt">>), fmt |-> "csv"],
     [name |-> Str(<<"dados">>), fmt |-> "xlsx"]}

\* the sheet of an upload that is never parsed or never parses is of no
\* consequence: one stands for all
UploadsOf(e) ==
    {[name |-> u.name, fmt |-> u.fmt, df |-> d] : u \in UploadsParsed, d \in SheetsOf(e)}
    \cup {[name |-> u.name, fmt |-> u.fmt, df |-> CHOOSE d \in SheetsOf(e) : d.rows # <<>>] :
             u \in UploadsOther}

(***************************************************************************)
(* Cart exports.  Lengths on the pdf page are in hundredths of a point.    *)
(***************************************************************************)
\* f"{x:.2f}".replace(".", ","): the amount as text
FormatMoney(x) == IF IsNaN(x) THEN <<"nan">> ELSE <<NumPiece(x.v)>>

\* the rows of the three exports, one per cart entry with a product
XlsxRow(plist, e) ==
    [Produto |-> ProductsGet(plist, e.pid).name,
     Preco |-> EffectivePrice(ProductsGet(plist, e.pid)),
     Quantidade |-> e.qty,
     Total |-> FMulInt(EffectivePrice(ProductsGet(plist, e.pid)), e.qty)]

CsvRowUnitTotal(plist, e) ==
    [SKU |-> ProductsGet(plist, e.pid).id,
     Nome |-> ProductsGet(plist, e.pid).name,
     Quantidade |-> e.qty,
     PrecoUnitario |-> FormatMoney(EffectivePrice(ProductsGet(plist, e.pid))),
     TotalLinha |-> FormatMoney(EffectivePrice(ProductsGet(plist, e.pid)))]

CsvRow(plist, e) ==
    [SKU |-> ProductsGet(plist, e.pid).id,
     Nome |-> ProductsGet(plist, e.pid).name,
     Quantidade |-> e.qty,
     PrecoUnitario |-> FormatMoney(EffectivePrice(ProductsGet(plist, e.pid))),
     TotalLinha |-> FormatMoney(FMulInt(EffectivePrice(ProductsGet(plist, e.pid)), e.qty))]

PdfItem(plist, e) ==
    [name |-> ProductsGet(plist, e.pid).name,
     qty |-> e.qty,
     price |-> EffectivePrice(ProductsGet(plist, e.pid)),
     line_total |-> FMulInt(EffectivePrice(ProductsGet(plist, e.pid)), e.qty)]

\* the cart entries whose product id is in the catalog, in cart order
Resolved(plist, c) == SelectSeq(c, LAMBDA e : e.pid \in ProductIds(plist))

\* A4 is 595.27 x 841.89 points
PageHeight == 84189
TopMargin == 4000
BottomMargin == 6000
TitleStep == 3000
HeaderStep == 2000
ItemStep == 1800
TotalStep == 1000

\* the item lines and the total line as drawn: the page and the height y of
\* each.  Before an item, y < 60 starts a new page; the total is drawn 10
\* below where the last item left y.
RECURSIVE DrawItems(_, _, _)
DrawItems(items, y, page) ==
    IF items = <<>>
    THEN <<[kind |-> "total", page |-> page, y |-> y - TotalStep]>>
    ELSE LET y1 == IF y < BottomMargin THEN PageHeight - TopMargin ELSE y
             p1 == IF y < BottomMargin THEN page + 1 ELSE page
         IN  <<[kind |-> "item", page |-> p1, y |-> y1]>>
             \o DrawItems(Tail(items), y1 - ItemStep, p1)

PdfLines(items) == DrawItems(items, PageHeight - TopMargin - TitleStep - HeaderStep, 1)

ExportWithoutEmptyCheck(kind, rows) ==
    /\ resp' = IF LoadProductsRaises(files) THEN Error500 ELSE ListPage(kind, rows)
    /\ UNCHANGED <<cart, coupon_code, shipping_value, user_email, files, admin, lastCoupon,
                   inflight>>

\* an export: the cart-is-empty answer, a 500 when load_products raises, or
\* the file
Export(kind, rows) ==
    /\ resp' = IF cart = <<>> THEN Redirect("Carrinho vazio.")
               ELSE IF LoadProductsRaises(files) THEN Error500
               ELSE ListPage(kind, rows)
    /\ UNCHANGED <<cart, coupon_code, shipping_value, user_email, files, admin, lastCoupon,
                   inflight>>

\* GET /cart/export/xlsx
export_cart_xlsx ==
    /\ req' = Request("export_cart_xlsx", None, None)
    /\ Export("xlsx", [i \in 1..Len(Resolved(load_products(files), cart)) |->
                          XlsxRow(load_products(files), Resolved(load_products(files), cart)[i])])

\* GET /cart/export/csv
export_cart_csv ==
    /\ req' = Request("export_cart_csv", None, None)
    /\ Export("csv", [i \in 1..Len(Resolved(load_products(files), cart)) |->
                         CsvRow(load_products(files), Resolved(load_products(files), cart)[i])])

\* GET /cart/export/pdf; reportlab is installed or not
export_cart_pdf(installed) ==
    /\ req' = Request("export_cart_pdf", None, None)
    /\ IF ~installed
       THEN /\ resp' = Redirect("Dependencia de PDF ausente. Instale 'reportlab'.")
            /\ UNCHANGED <<cart, coupon_code, shipping_value, user_email, files, admin,
                           lastCoupon, inflight>>
       ELSE Export("pdf",
                   LET items == [i \in 1..Len(Resolved(load_products(files), cart)) |->
                                    PdfItem(load_products(files),
                                            Resolved(load_products(files), cart)[i])]
                   IN  [i \in 1..(Len(items) + 1) |->
                           [line |-> PdfLines(items)[i],
                            item |-> IF i <= Len(items) THEN items[i]
                                     ELSE [name |-> <<"Total">>, qty |-> 0, price |-> Num(0),
                                           line_total |-> SumLines(items)]]])

(***************************************************************************)
(* The account form.                                                       *)
(***************************************************************************)
\* request.form.get(key, default); a form is a record of texts, None for a
\* field that is not submitted
FormGet(form, key, default) == IF form[key].k = "none" THEN default ELSE form[key]

\* df.loc[idx, col] = x: a column the frame lacks is added, empty in the
\* other rows
SetCell(df, idx, col, x) ==
    DF(IF col \in Range(df.cols) THEN df.cols ELSE Append(df.cols, col),
       [i \in 1..Len(df.rows) |->
           [c \in Range(df.cols) \cup {col} |->
               IF c # col THEN df.rows[i][c]
               ELSE IF i = idx THEN x
               ELSE IF col \in Range(df.cols) THEN df.rows[i][c] ELSE NaN]])

\* df[mask].index[0] for mask = df["email"].astype(str) == str(user.email)
MaskAny(df, email) == \E i \in 1..Len(df.rows) : StrOf(df.rows[i]["email"]) = email

MaskFirst(df, email) ==
    CHOOSE i \in 1..Len(df.rows) :
        /\ StrOf(df.rows[i]["email"]) = email
        /\ \A j \in 1..(i - 1) : StrOf(df.rows[j]["email"]) # email

\* the optional fields: request.form.get(col, user.<col> or "")
SetOptional(df, idx, col, user, form) ==
    SetCell(df, idx, col, FormGet(form, col, PyOr(user[col], Str(<<>>))))

\* the frame account_submit saves for a client
UpdatedClients(df, idx, user, form, new_email, new_password) ==
    LET d1 == SetCell(df, idx, "name", FormGet(form, "name", Str(user.name)))
        d2 == IF new_email # <<>> THEN SetCell(d1, idx, "email", Str(new_email)) ELSE d1
        d3 == IF new_password # <<>> THEN SetCell(d2, idx, "password", Str(new_password))
              ELSE d2
        d4 == SetOptional(d3, idx, "phone", user, form)
        d5 == SetOptional(d4, idx, "address", user, form)
        d6 == SetOptional(d5, idx, "state", user, form)
        d7 == SetOptional(d6, idx, "city", user, form)
    IN  SetOptional(d7, idx, "cep", user, form)

PasswordNeverRefused(pw, pw2) == FALSE

\* if pw: if pw != pw2: the new password is refused
PasswordRefused(pw, pw2) == pw # <<>> /\ pw # pw2

\* POST /account
account_submit(form) ==
    LET user == _get_current_user(user_email, files, admin)
        a1 == AdminAfterCurrentUser(user_email, admin)
        new_email == Strip(FormGet(form, "email", Str(user.email)).s)
        pw == Strip(FormGet(form, "password", Str(<<>>)).s)
        pw2 == Strip(FormGet(form, "password_confirm", Str(<<>>)).s)
        df == _read_tabular(files["clients"])
    IN  /\ req' = Request("account_submit", form, None)
        /\ IF ~user.found
           THEN /\ resp' = Redirect("")
                /\ admin' = a1
                /\ UNCHANGED <<user_email, files>>
           ELSE IF _is_admin_email(user.email, a1)
           THEN IF PasswordRefused(pw, pw2)
                THEN /\ resp' = Redirect("As senhas nao conferem.")
                     /\ admin' = a1
                     /\ UNCHANGED <<user_email, files>>
                ELSE /\ admin' = save_admin(a1,
                                           IF new_email # <<>> THEN Str(new_email) ELSE None,
                                           IF pw # <<>> THEN Str(pw) ELSE None)
                     /\ user_email' = IF new_email # <<>> /\ new_email # user.email
                                      THEN Str(new_email) ELSE user_email
                     /\ resp' = Redirect("Dados do administrador atualizados.")
                     /\ UNCHANGED files
           ELSE /\ admin' = a1
                /\ IF ~df.ok
                   THEN /\ resp' = Redirect("Base de clientes ausente.")
                        /\ UNCHANGED <<user_email, files>>
                   ELSE IF "email" \notin Range(df.cols)
                   THEN /\ resp' = Error500
                        /\ UNCHANGED <<user_email, files>>
                   ELSE IF ~MaskAny(df, user.email)
                   THEN /\ resp' = Redirect("Cliente nao encontrado para atualizar.")
                        /\ UNCHANGED <<user_email, files>>
                   ELSE IF PasswordRefused(pw, pw2)
                   THEN /\ resp' = Redirect("As senhas nao conferem.")
                        /\ UNCHANGED <<user_email, files>>
                   ELSE /\ files' = [files EXCEPT
                                        !["clients"] = _save_clients_dataframe(
                                            UpdatedClients(df, MaskFirst(df, user.email),
                                                           user, form, new_email, pw))]
                        /\ user_email' = IF new_email # <<>> /\ new_email # user.email
                                         THEN Str(new_email) ELSE user_email
                        /\ resp' = Redirect("Dados atualizados.")
        /\ UNCHANGED <<cart, coupon_code, shipping_value, lastCoupon, inflight>>

\* admin.json is deleted by something other than the handlers
RemoveAdminFile ==
    /\ admin.exists
    /\ admin' = NoAdminFile
    /\ req' = Request("remove_admin_file", None, None)
    /\ resp' = NoResponse
    /\ UNCHANGED <<cart, coupon_code, shipping_value, user_email, files, lastCoupon, inflight>>

\* the account form as submitted: name, email, password and its confirmation
Form(name, email, password, password_confirm) ==
    [name |-> name, email |-> email, password |-> password,
     password_confirm |-> password_confirm,
     phone |-> None, address |-> None, state |-> None, city |-> None, cep |-> None]

AccountForms ==
    {Form(n, e, pw[1], pw[2]) :
        n \in {None, S("Novo Nome")},
        e \in {None, Str(<<>>), S("novo@teste.com"), S("swinck@gmail.com")},
        pw \in {<<None, None>>, <<S("nova"), S("nova")>>, <<S("nova"), S("outra")>>,
                <<Str(<<>>), S("outra")>>, <<Str(<<" ">>), Str(<<>>)>>,
                <<Str(<<"nova", " ">>), S("nova")>>}}

\* the clients file as seed() writes it: four columns
SeedClientsFile ==
    LET df == DF(<<"id", "name", "email", "password">>,
                 <<[id |-> S("c1"), name |-> S("Cliente Demo"), email |-> S("demo@teste.com"),
                    password |-> S("123456")]>>)
    IN  [xlsx |-> ToExcel(df), csv |-> ToCsv(df)]

AccountLogins ==
    {[email |-> e, password |-> pw] :
        e \in {<<"demo@teste.com">>, <<"swinck@gmail.com">>, <<"novo@teste.com">>},
        pw \in {<<"123456">>, <<"nova">>}}

(***************************************************************************)
(* Catalog pages, and what happens to the files of data/ outside the       *)
(* handlers.                                                               *)
(***************************************************************************)
PageSize == 9

\* ceil(total / page_size)
CeilDiv(a, b) == (a + b - 1) \div b

Max2(a, b) == IF a > b THEN a ELSE b
Min2(a, b) == IF a < b THEN a ELSE b

\* products[start:end]
Slice(seq, start, end) == SubSeq(seq, start + 1, Min2(end, Len(seq)))

\* the page of products that supplier_catalog hands to the template
PageProducts(plist, sid, page) ==
    LET products == SelectSeq(plist, LAMBDA q : q.supplier_id = sid)
        total_pages == Max2(CeilDiv(Len(products), PageSize), 1)
        pg == IF Max2(page, 1) > total_pages THEN total_pages ELSE Max2(page, 1)
    IN  Slice(products, (pg - 1) * PageSize, (pg - 1) * PageSize + PageSize)

PageInputs == {None, S("1"), S("2"), S("abc")}
SupplierIds == {<<"forn1">>, <<"forn2">>}

\* GET /
index ==
    /\ req' = Request("index", None, None)
    /\ resp' = ListPage("index", load_suppliers(files))
    /\ admin' = AdminAfterCurrentUser(user_email, admin)
    /\ UNCHANGED <<cart, coupon_code, shipping_value, user_email, files, lastCoupon, inflight>>

\* GET /supplier/<supplier_id>?page=<raw>
supplier_catalog(sid, raw) ==
    /\ req' = Request("supplier_catalog", Str(sid), raw)
    /\ IF ~QtyOfForm(raw).ok \/ LoadProductsRaises(files)
       THEN /\ resp' = Error500
            /\ UNCHANGED admin
       ELSE /\ resp' = ListPage("supplier",
                                PageProducts(load_products(files), sid, QtyOfForm(raw).val))
            /\ admin' = AdminAfterCurrentUser(user_email, admin)
    /\ UNCHANGED <<cart, coupon_code, shipping_value, user_email, files, lastCoupon, inflight>>

\* a file of data/ is deleted, or left unreadable, by something other than
\* the handlers
Formats == {"xlsx", "csv"}

RemoveFile(e, f) ==
    /\ files[e][f].st # "absent"
    /\ files' = [files EXCEPT ![e][f] = AbsentFile]
    /\ req' = Request("remove_file", S(e), S(f))
    /\ resp' = NoResponse
    /\ UNCHANGED <<cart, coupon_code, shipping_value, user_email, admin, lastCoupon, inflight>>

DamageFile(e, f) ==
    /\ files[e][f].st = "ok"
    /\ files' = [files EXCEPT ![e][f] = CorruptFile]
    /\ req' = Request("damage_file", S(e), S(f))
    /\ resp' = NoResponse
    /\ UNCHANGED <<cart, coupon_code, shipping_value, user_email, admin, lastCoupon, inflight>>

\* a sheet whose product ids are text cells of digits, one with a leading zero
CatalogPaddedId ==
    DF(ProductCols, <<ProductRow("0500", Num(1000), NaN), ProductRow("1000", Num(500), Num(0))>>)

StoreUploads(e) ==
    IF e = "products"
    THEN {[name |-> Str(<<"dados", ".", "xlsx">>), fmt |-> "xlsx", df |-> d] :
             d \in {CatalogPaddedId, CatalogPromo}}
    ELSE {[name |-> Str(<<"dados", ".", "csv">>), fmt |-> "csv", df |-> d] :
             d \in {DF(SupplierCols, <<[id |-> S("forn3"), name |-> S("Fornecedor C"),
                                        logo |-> NaN]>>)}}

(***************************************************************************)
(* An import served step by step, so that two threads can interleave: the  *)
(* checks and the parse, then df.to_excel, then df.to_csv and the answer.  *)
(***************************************************************************)
\* where the handler gets to before it saves
ImportStage(up) ==
    IF RequireAdminFails(user_email, files, admin) THEN "auth"
    ELSE IF up.name.k = "none" \/ up.name.s = <<>> THEN "nofile"
    ELSE IF ExtOf(secure_filename(up.name.s)) \notin {<<"xlsx">>, <<"csv">>} THEN "ext"
    ELSE IF ~ParseOk(ExtOf(secure_filename(up.name.s)), up) THEN "parse"
    ELSE "save"

RefusalOf(stage) ==
    CASE stage = "auth" -> "Acesso restrito ao administrador."
      [] stage = "nofile" -> "Selecione um arquivo .xlsx ou .csv"
      [] stage = "ext" -> "Formato nao suportado. Use .xlsx ou .csv"
      [] OTHER -> "Falha ao importar"

\* _require_admin ... pd.read_excel / pd.read_csv, df = df[wanted_cols]
import_begin(t, e, up) ==
    /\ inflight[t].pc \in {"idle", "done"}
    /\ req' = [Request("import_submit", up.name, S(e)) EXCEPT !.df = up.df]
    /\ admin' = AdminAfterCurrentUser(user_email, admin)
    /\ IF ImportStage(up) # "save"
       THEN /\ resp' = Answer(RefusalOf(ImportStage(up)), ImportStage(up))
            /\ UNCHANGED inflight
       ELSE /\ resp' = NoResponse
            /\ inflight' = [inflight EXCEPT
                               ![t] = [pc |-> "xlsx", e |-> e,
                                       df |-> Canonical(WantedCols(e), up.df)]]
    /\ UNCHANGED <<cart, coupon_code, shipping_value, user_email, files, lastCoupon>>

\* df.to_excel(DATA_DIR / "<entity>.xlsx", index=False)
write_xlsx(t) ==
    /\ inflight[t].pc = "xlsx"
    /\ files' = [files EXCEPT ![inflight[t].e].xlsx = ToExcel(inflight[t].df)]
    /\ inflight' = [inflight EXCEPT ![t].pc = "csv"]
    /\ req' = Request("to_excel", S(inflight[t].e), None)
    /\ resp' = NoResponse
    /\ UNCHANGED <<cart, coupon_code, shipping_value, user_email, admin, lastCoupon>>

\* df.to_csv(DATA_DIR / "<entity>.csv", index=False), flash, redirect
write_csv(t) ==
    /\ inflight[t].pc = "csv"
    /\ files' = [files EXCEPT ![inflight[t].e].csv = ToCsv(inflight[t].df)]
    /\ inflight' = [inflight EXCEPT ![t].pc = "done"]
    /\ req' = Request("to_csv", S(inflight[t].e), None)
    /\ resp' = Answer(ImportDone(inflight[t].e), "saved")
    /\ UNCHANGED <<cart, coupon_code, shipping_value, user_email, admin, lastCoupon>>

\* the uploads of the two threads: two supplier sheets, one product sheet, and
\* a file that is refused
RaceUploads(e) ==
    IF e = "suppliers"
    THEN {[name |-> Str(<<"dados", ".", "csv">>), fmt |-> "csv", df |-> d] :
             d \in {DF(SupplierCols, <<SupplierRow("forn3", "Fornecedor C", NaN)>>),
                    DF(SupplierCols, <<SupplierRow("forn4", "Fornecedor D", NaN)>>)}}
         \cup {[name |-> Str(<<"dados", ".", "txt">>), fmt |-> "csv",
                df |-> DF(SupplierCols, <<>>)]}
    ELSE {[name |-> Str(<<"dados", ".", "xlsx">>), fmt |-> "xlsx", df |-> CatalogPromo]}

(***************************************************************************)
(* Specifications.  InitSession is a new session over the files found in   *)
(* data/: the seeded clients and one of the stored catalogs.               *)
(***************************************************************************)
InitSession(catalogs) ==
    /\ cart = <<>>
    /\ coupon_code = None
    /\ shipping_value = None
    /\ user_email = None
    /\ \E cat \in catalogs :
           files = [e \in Entities |->
                       CASE e = "products" -> cat
                         [] e = "clients" -> _save_clients_dataframe(SeedClients)
                         [] OTHER -> NoFiles]
    /\ admin = NoAdminFile
    /\ lastCoupon = None
    /\ inflight = NoInflight
    /\ req = Request("start", None, None)
    /\ resp = NoResponse

\* Pricing: a cart is filled, a coupon and a shipping value are set, the cart
\* is viewed.
InitPricing == InitSession(StoredCatalogs)

NextPricing ==
    \/ \E pid \in PIDs, raw \in {S("1"), S("2")} : cart_add(pid, raw)
    \/ view_cart
    \/ \E raw \in CouponInputs : apply_coupon(raw)
    \/ \E raw \in ShippingInputs : set_shipping(raw)

SpecPricing == InitPricing /\ [][NextPricing]_vars

\* a saved import made from the session of another browser: it replaces the
\* files of the entity and touches nothing of this session
ImportInOtherSession(e, df) ==
    /\ req' = Request("other_session_import", None, S(e))
    /\ resp' = NoResponse
    /\ files' = StoreImport(files, e, df)
    /\ admin' = _ensure_admin_file(admin)
    /\ UNCHANGED <<cart, coupon_code, shipping_value, user_email, lastCoupon, inflight>>

\* Cart: entries are added and removed, users log in and out and check out,
\* and the clients are replaced from another session.
InitCart == InitSession({_save_products_dataframe(CatalogPromo)})

NextCart ==
    \/ \E d \in ClientSheets : ImportInOtherSession("clients", d)
    \/ \E pid \in PIDs, raw \in QtyInputs : cart_add(pid, raw)
    \/ \E pid \in PIDs : cart_remove(pid)
    \/ checkout_submit
    \/ \E l \in LoginInputs : login_submit(l.email, l.password)
    \/ logout

SpecCart == InitCart /\ [][NextCart]_vars

\* Import: users log in and out and submit imports of the three entities.
InitImport ==
    /\ cart = <<>>
    /\ coupon_code = None
    /\ shipping_value = None
    /\ user_email = None
    /\ files = [e \in Entities |->
                   CASE e = "products" -> _save_products_dataframe(CatalogPromo)
                     [] e = "clients" -> _save_clients_dataframe(SeedClients)
                     [] OTHER -> _save_suppliers_dataframe(SeedSuppliers)]
    /\ admin = NoAdminFile
    /\ lastCoupon = None
    /\ inflight = NoInflight
    /\ req = Request("start", None, None)
    /\ resp = NoResponse

NextImport ==
    \/ \E l \in LoginInputs : login_submit(l.email, l.password)
    \/ logout
    \/ \E up \in UploadsOf("clients") : clients_import_submit(up)
    \/ \E up \in UploadsOf("suppliers") : suppliers_import_submit(up)
    \/ \E up \in UploadsOf("products") : products_import_submit(up)

SpecImport == InitImport /\ [][NextImport]_vars

\* Store: the administrator imports products and suppliers, files are deleted
\* or damaged, the catalog pages are read.
InitStore ==
    /\ cart = <<>>
    /\ coupon_code = None
    /\ shipping_value = None
    /\ user_email = None
    /\ \E cat \in {NoFiles} \cup {_save_products_dataframe(df) :
                                     df \in {CatalogPromo, CatalogEmptyPrice, CatalogBadPrice}} :
           files = [e \in Entities |->
                       CASE e = "products" -> cat
                         [] e = "clients" -> _save_clients_dataframe(SeedClients)
                         [] OTHER -> _save_suppliers_dataframe(SeedSuppliers)]
    /\ admin = NoAdminFile
    /\ lastCoupon = None
    /\ inflight = NoInflight
    /\ req = Request("start", None, None)
    /\ resp = NoResponse

NextStore ==
    \/ login_submit(<<"swinck@gmail.com">>, <<"123456">>)
    \/ \E up \in StoreUploads("suppliers") : suppliers_import_submit(up)
    \/ \E up \in StoreUploads("products") : products_import_submit(up)
    \/ \E e \in Entities, f \in Formats : RemoveFile(e, f)
    \/ \E e \in Entities, f \in Formats : DamageFile(e, f)
    \/ index
    \/ \E sid \in SupplierIds, raw \in PageInputs : supplier_catalog(sid, raw)

SpecStore == InitStore /\ [][NextStore]_vars

\* Race: the administrator is logged in and two threads serve imports, their
\* file writes interleaved in any order.
InitRace == InitImport

NextRace ==
    \/ login_submit(<<"swinck@gmail.com">>, <<"123456">>)
    \/ \E t \in Threads, e \in {"suppliers", "products"} :
           \E up \in RaceUploads(e) : import_begin(t, e, up)
    \/ \E t \in Threads : write_xlsx(t)
    \/ \E t \in Threads : write_csv(t)

SpecRace == InitRace /\ [][NextRace]_vars

\* Account: users log in and out and submit the account form, the
\* administrator imports clients, admin.json is deleted.
InitAccount ==
    /\ cart = <<>>
    /\ coupon_code = None
    /\ shipping_value = None
    /\ user_email = None
    /\ files = [e \in Entities |->
                   CASE e = "products" -> _save_products_dataframe(CatalogPromo)
                     [] e = "clients" -> SeedClientsFile
                     [] OTHER -> _save_suppliers_dataframe(SeedSuppliers)]
    /\ admin = NoAdminFile
    /\ lastCoupon = None
    /\ inflight = NoInflight
    /\ req = Request("start", None, None)
    /\ resp = NoResponse

NextAccount ==
    \/ \E l \in AccountLogins : login_submit(l.email, l.password)
    \/ logout
    \/ \E form \in AccountForms : account_submit(form)
    \/ RemoveAdminFile
    \/ \E d \in ClientSheets :
           clients_import_submit([name |-> Str(<<"dados", ".", "csv">>), fmt |-> "csv",
                                  df |-> d])

SpecAccount == InitAccount /\ [][NextAccount]_vars

\* Export: a cart is filled and emptied, a coupon and a shipping value are
\* set, the cart is exported.
InitExport ==
    InitSession({_save_products_dataframe(CatalogPromo),
                 _save_products_dataframe(CatalogEmptyPrice),
                 _save_products_dataframe(CatalogDuplicate),
                 _save_products_dataframe(CatalogBadPrice)})

NextExport ==
    \/ \E pid \in PIDs, raw \in {S("1"), S("2")} : cart_add(pid, raw)
    \/ \E pid \in PIDs : cart_remove(pid)
    \/ \E raw \in {<<"DESCONTO10">>, <<"OUTRO">>} : apply_coupon(raw)
    \/ set_shipping(S("500"))
    \/ view_cart
    \/ export_cart_xlsx
    \/ export_cart_csv
    \/ \E installed \in BOOLEAN : export_cart_pdf(installed)

SpecExport == InitExport /\ [][NextExport]_vars

\* Pdf: carts of up to MaxItems entries, one unit each of as many products,
\* are exported to pdf and emptied from the end.
ItemId(i) == <<"P" \o ToString(i)>>

CatalogOfItems ==
    DF(ProductCols, [i \in 1..MaxItems |-> ProductRow("P" \o ToString(i), Num(100), NaN)])

\* the cart after cart_add of the first n products, one unit each
CartOfItems(n) == [i \in 1..n |-> [pid |-> ItemId(i), qty |-> 1]]

InitPdf ==
    /\ \E n \in 0..MaxItems : cart = CartOfItems(n)
    /\ coupon_code = None
    /\ shipping_value = None
    /\ user_email = None
    /\ files = [e \in Entities |->
                   CASE e = "products" -> _save_products_dataframe(CatalogOfItems)
                     [] e = "clients" -> _save_clients_dataframe(SeedClients)
                     [] OTHER -> NoFiles]
    /\ admin = NoAdminFile
    /\ lastCoupon = None
    /\ inflight = NoInflight
    /\ req = Request("start", None, None)
    /\ resp = NoResponse

NextPdf ==
    \/ \E installed \in BOOLEAN : export_cart_pdf(installed)
    \/ cart # <<>> /\ cart_remove(ItemId(Len(cart)))

SpecPdf == InitPdf /\ [][NextPdf]_vars

(***************************************************************************)
(* Properties.  The operators below restate what a claim says of a cart or *)
(* a view without using the operators of the handlers.                     *)
(***************************************************************************)
Viewed == resp.kind = "cart"

\* the quantity a cart holds of a product id, 0 when it holds none
Qty(c, pid) ==
    IF \E i \in 1..Len(c) : c[i].pid = pid
    THEN (CHOOSE e \in Range(c) : e.pid = pid).qty
    ELSE 0

\* the entries of a cart for other product ids than pid, in cart order
EntriesOtherThan(c, pid) == SelectSeq(c, LAMBDA e : e.pid # pid)

Resolves(pid) == \E i \in 1..Len(load_products(files)) : load_products(files)[i].id = pid

\* the entries of the cart whose product id is in the catalog, in cart order
ResolvedEntries == SelectSeq(cart, LAMBDA e : Resolves(e.pid))

\* the sum of the line totals of a view, from the first item on
RECURSIVE LineSum(_)
LineSum(items) ==
    IF items = <<>> THEN Num(0) ELSE FAdd(Head(items).line_total, LineSum(Tail(items)))

\* C1 (as stated): whenever view_cart has rendered the cart, the grand total,
\* the subtotal, the discount and the shipping value are numbers, the
\* discount is the subtotal times the rate rounded to the cent, and the grand
\* total is max(subtotal - discount + shipping, 0), so never negative.
C1_GrandTotalNeverNegative ==
    Viewed =>
        LET v == resp.view
        IN  /\ IsNum(v.total_value) /\ IsNum(v.discount_value)
            /\ IsNum(v.shipping_value) /\ IsNum(v.grand_total)
            /\ 2 * Abs(100 * v.discount_value.v - v.total_value.v * v.discount_rate) <= 100
            /\ v.grand_total.v >= 0
            /\ LET t == v.total_value.v - v.discount_value.v + v.shipping_value.v
               IN  v.grand_total.v = IF t > 0 THEN t ELSE 0

\* The numeric case of C1: when the subtotal and the stored shipping
\* value are numbers, the grand total is max(subtotal - discount + shipping, 0).
NumericGrandTotal ==
    (Viewed /\ IsNum(resp.view.total_value) /\ shipping_value.k # "nan") =>
        C1_GrandTotalNeverNegative

\* C2: in a rendered cart there is one item per cart entry whose product id
\* resolves, in cart order; its unit price is the product's promo_price when
\* that is present (whether above or below the price) and the price
\* otherwise; its line total is unit price x quantity; the subtotal is the
\* sum of the line totals.  Product P1 at 10.00 with promo 9.00, cart {P1: 3},
\* coupon DESCONTO10 and shipping 5.00 give 27.00, 2.70 and 29.30.
C2_PromoPriceAndLineTotals ==
    Viewed =>
        LET v == resp.view
            plist == load_products(files)
            resolved == ResolvedEntries
        IN  /\ Len(v.items) = Len(resolved)
            /\ \A i \in 1..Len(resolved) :
                   LET p == ProductsGet(plist, resolved[i].pid)
                       unit == IF p.promo_price.k # "none" THEN p.promo_price ELSE p.price
                   IN  /\ v.items[i].pid = resolved[i].pid
                       /\ v.items[i].qty = resolved[i].qty
                       /\ v.items[i].price = unit
                       /\ v.items[i].line_total =
                              (IF IsNaN(unit) THEN NaN ELSE Num(unit.v * resolved[i].qty))
            /\ v.total_value = LineSum(v.items)
            /\ (/\ cart = <<[pid |-> <<"P1">>, qty |-> 3]>>
                /\ files["products"] = _save_products_dataframe(CatalogPromo)
                /\ coupon_code = S("DESCONTO10")
                /\ shipping_value = Num(500))
               => /\ v.total_value = Num(2700)
                  /\ v.discount_value = Num(270)
                  /\ v.grand_total = Num(2930)

\* C2 witness: the scenario of the claim has been rendered.
C2_Witness ==
    /\ Viewed
    /\ cart = <<[pid |-> <<"P1">>, qty |-> 3]>>
    /\ files["products"] = _save_products_dataframe(CatalogPromo)
    /\ coupon_code = S("DESCONTO10")
    /\ shipping_value = Num(500)
    /\ resp.view.items[1].price = Num(900)
    /\ resp.view.grand_total = Num(2930)

\* the rate (percent) a coupon text stands for when compared as written
RateOfCode(c) ==
    IF c = <<"DESCONTO10">> THEN 10 ELSE IF c = <<"DESCONTO5">> THEN 5 ELSE 0

\* C3 (as stated): once a code c has been submitted, a rendered cart uses rate
\* 0.10 if c is "DESCONTO10", 0.05 if c is "DESCONTO5" and 0.0 for every other
\* c, and after any other c the session holds no coupon_code.
C3_RateOfSubmittedCode ==
    lastCoupon.k = "str" =>
        /\ Viewed => resp.view.discount_rate = RateOfCode(lastCoupon.s)
        /\ RateOfCode(lastCoupon.s) = 0 => coupon_code = None

\* the submitted text without leading and trailing spaces, in upper case
RECURSIVE Trimmed(_)
Trimmed(c) ==
    IF c # <<>> /\ c[1] = " " THEN Trimmed(Tail(c))
    ELSE IF c # <<>> /\ c[Len(c)] = " " THEN Trimmed(SubSeq(c, 1, Len(c) - 1))
    ELSE [i \in 1..Len(c) |-> UpperPiece(c[i])]

\* C3 (amended): the same, with c compared after removing the white space
\* around it and converting it to upper case.
C3_RateOfNormalizedCode ==
    lastCoupon.k = "str" =>
        /\ Viewed => resp.view.discount_rate = RateOfCode(Trimmed(lastCoupon.s))
        /\ RateOfCode(Trimmed(lastCoupon.s)) = 0 => coupon_code = None

\* C3 witness: "desconto10" was submitted and the cart rendered at 10%.
C3_Witness ==
    /\ Viewed
    /\ lastCoupon = S("desconto10")
    /\ resp.view.discount_rate = 10
    /\ resp.view.total_value.v > 0

Dangling == \E i \in 1..Len(cart) : ~Resolves(cart[i].pid)

\* C4 (as stated): view_cart of a cart with an entry whose product id is
\* absent from the catalog does not raise; a rendered cart has no item for
\* such an entry, and its items and subtotal are those of the cart without
\* its dangling entries.
C4_DanglingEntrySkipped ==
    /\ (req.op = "view_cart" /\ Dangling) => resp.kind = "cart"
    /\ Viewed =>
           /\ \A i \in 1..Len(resp.view.items) : Resolves(resp.view.items[i].pid)
           /\ resp.view.items =
                  CartItems(load_products(files), ResolvedEntries)
           /\ resp.view.total_value = LineSum(resp.view.items)

\* The loaded case of C4: when load_products returns, view_cart
\* renders the cart without its dangling entries.
DanglingSkippedWhenLoaded ==
    /\ (req.op = "view_cart" /\ Dangling /\ ~LoadProductsRaises(files)) => resp.kind = "cart"
    /\ Viewed =>
           /\ \A i \in 1..Len(resp.view.items) : Resolves(resp.view.items[i].pid)
           /\ resp.view.items =
                  CartItems(load_products(files), ResolvedEntries)

\* C5: every quantity in the session cart is an integer >= 1.
C5_QuantitiesPositive == \A i \in 1..Len(cart) : cart[i].qty \in Nat /\ cart[i].qty >= 1

\* C5 witness: an add with qty -1 has been answered and the cart holds an entry.
C5_Witness ==
    /\ req.op = "cart_add" /\ req.b = S("-1")
    /\ resp.kind = "redirect"
    /\ Qty(cart, req.a) >= 1

\* C6: a cart_add that is answered sets the quantity of its product id to the
\* previous quantity (0 if absent) plus max(qty, 1) and leaves every other
\* product id with the quantity it had.
C6_AddIncrements ==
    [][(req'.op = "cart_add" /\ resp'.kind # "error") =>
          LET q == QtyOfForm(req'.b).val
          IN  /\ Qty(cart', req'.a) = Qty(cart, req'.a) + (IF q > 1 THEN q ELSE 1)
              /\ \A p \in PIDs \ {req'.a} : Qty(cart', p) = Qty(cart, p)
              /\ EntriesOtherThan(cart', req'.a) = EntriesOtherThan(cart, req'.a)]_vars

\* C6 witness: an add with qty 0 has raised an existing quantity from 1 to 2
\* beside another entry.
C6_Witness ==
    /\ req.op = "cart_add" /\ req.b = S("0")
    /\ Qty(cart, req.a) = 2
    /\ Len(cart) = 2

\* C7: cart_remove never raises; it deletes the entry of its product id when
\* the cart has one, keeps every other entry, and leaves a cart without the
\* product id exactly as it was.
C7_RemoveDeletesOnlyThatEntry ==
    [][req'.op = "cart_remove" =>
          /\ resp'.kind # "error"
          /\ Qty(cart', req'.a) = 0
          /\ cart' = EntriesOtherThan(cart, req'.a)
          /\ Qty(cart, req'.a) = 0 => cart' = cart]_vars

\* C7 witness: an entry has been removed and another entry is still there.
C7_Witness ==
    /\ req.op = "cart_remove"
    /\ resp.flash = "Produto removido do carrinho."
    /\ cart # <<>>

\* the session's current user is not the administrator: no user_email, or one
\* that is not the administrator's email
NotAdministrator ==
    \/ user_email.k = "none"
    \/ user_email.s = <<>>
    \/ user_email.s # (IF admin.exists THEN admin.email ELSE <<"swinck@gmail.com">>)

\* C8: an import submitted while the session's current user is not the
\* administrator is answered with the authorization failure, returns before
\* the uploaded file is looked at, and changes no entity file.
C8_NonAdminImportRefused ==
    [][(req'.op = "import_submit" /\ NotAdministrator) =>
          /\ resp'.flash = "Acesso restrito ao administrador."
          /\ resp'.stage = "auth"
          /\ files' = files]_vars

\* C8 witness: a logged-in client has submitted a csv file and was refused.
C8_Witness ==
    /\ req.op = "import_submit" /\ req.a = Str(<<"dados", ".", "csv">>)
    /\ user_email = S("demo@teste.com")
    /\ resp.stage = "auth"

\* the extension of a file name as uploaded: what follows its last ".", in
\* lower case; empty when it has no "."
RECURSIVE AfterLastDot(_)
AfterLastDot(t) == IF "." \in Range(t) THEN AfterLastDot(Tail(t)) ELSE t

NameExtension(t) ==
    IF "." \in Range(t) THEN [i \in 1..Len(AfterLastDot(t)) |-> LowerPiece(AfterLastDot(t)[i])]
    ELSE <<>>

\* C9 (as stated): an import submitted by the administrator with a file whose
\* name has an extension other than xlsx or csv is answered with the
\* unsupported-format message and changes no entity file.
C9_OtherExtensionRejected ==
    [][(/\ req'.op = "import_submit" /\ ~NotAdministrator
        /\ req'.a.k = "str" /\ req'.a.s # <<>>
        /\ NameExtension(req'.a.s) \notin {<<"xlsx">>, <<"csv">>}) =>
          /\ resp'.flash = "Formato nao suportado. Use .xlsx ou .csv"
          /\ files' = files]_vars

\* The sanitized case of C9: the same for the extension of the name
\* that secure_filename returns.
OtherExtensionRejectedAfterSanitizing ==
    [][(/\ req'.op = "import_submit" /\ ~NotAdministrator
        /\ req'.a.k = "str" /\ req'.a.s # <<>>
        /\ NameExtension(secure_filename(req'.a.s)) \notin {<<"xlsx">>, <<"csv">>}) =>
          /\ resp'.flash = "Formato nao suportado. Use .xlsx ou .csv"
          /\ files' = files]_vars

\* the canonical columns of an entity, as documented
CanonicalColumns(e) ==
    CASE e = "suppliers" -> <<"id", "name", "logo">>
      [] e = "products" -> <<"id", "supplier_id", "name", "price", "promo_price", "image">>
      [] OTHER -> <<"id", "name", "email", "password", "phone", "address", "state", "city", "cep">>

\* a value as a file holds it: a sheet holds the value with its type, a csv
\* file its text, and an empty cell stands for a missing value in both
WrittenAs(f, x) ==
    IF f = "xlsx" THEN (IF x.k = "none" THEN NaN ELSE x)
    ELSE CASE x.k = "num" -> Str(<<ToString(x.v)>>)
           [] x.k = "str" -> x
           [] OTHER -> Str(<<>>)

\* both files of a pair hold exactly the records of df, on the canonical
\* columns of e in their order
HoldsExactly(pair, e, df) ==
    \A f \in {"xlsx", "csv"} :
        /\ pair[f].st = "ok"
        /\ pair[f].cols = CanonicalColumns(e)
        /\ Len(pair[f].rows) = Len(df.rows)
        /\ \A i \in 1..Len(df.rows) :
               /\ DOMAIN pair[f].rows[i] = Range(CanonicalColumns(e))
               /\ \A c \in Range(CanonicalColumns(e)) :
                      pair[f].rows[i][c] =
                          WrittenAs(f, IF c \in Range(df.cols) THEN df.rows[i][c] ELSE None)

\* C10: after a successful import of an entity both of its files hold exactly
\* the imported records on the canonical columns, a canonical column missing
\* from the upload empty and every other column dropped, whatever was stored
\* before; the files of the other entities are as they were.
C10_ImportReplacesDataset ==
    [][(req'.op = "import_submit" /\ resp'.stage = "saved") =>
          \A e \in Entities :
              req'.b = S(e) =>
                  /\ HoldsExactly(files'[e], e, req'.df)
                  /\ \A o \in Entities \ {e} : files'[o] = files[o]]_vars

\* C10 witness: the two seeded suppliers have been replaced by the one record
\* of a sheet without a logo column and with a cnpj column.
C10_Witness ==
    /\ req.op = "import_submit" /\ req.b = S("suppliers")
    /\ resp.stage = "saved"
    /\ Len(files["suppliers"].xlsx.rows) = 1
    /\ files["suppliers"].xlsx.rows[1] =
           [id |-> S("forn5"), name |-> S("Fornecedor E"), logo |-> NaN]
    /\ files["suppliers"].csv.rows[1] =
           [id |-> S("forn5"), name |-> S("Fornecedor E"), logo |-> Str(<<>>)]

\* C11: an import that is saved right after a saved import of the same
\* dataset for the same entity leaves every stored file as the first left it.
C11_RepeatedImportIdempotent ==
    [][(/\ req.op = "import_submit" /\ resp.stage = "saved"
        /\ req'.op = "import_submit" /\ resp'.stage = "saved"
        /\ req'.b = req.b /\ req'.df = req.df) => files' = files]_vars

\* C11 witness: the sheet without a logo column has been imported twice in
\* succession over the seeded suppliers.
C11_Witness ==
    /\ req.op = "import_submit" /\ req.b = S("suppliers") /\ req.again
    /\ resp.stage = "saved"
    /\ req.df.cols = <<"name", "cnpj", "id">> /\ Len(req.df.rows) = 1
    /\ Len(files["suppliers"].csv.rows) = 1

\* both files of the products pair are there as the last write left them
ProductsWritten == files["products"].xlsx.st = "ok" /\ files["products"].csv.st = "ok"

HasPaddedText(f) ==
    \E i \in 1..Len(f.rows) : \E c \in DOMAIN f.rows[i] : \E n \in Amounts :
        f.rows[i][c] = Str(<<"0" \o ToString(n)>>)

\* The case of C12 without such cells: either file reads back the same records.
EitherFormatReadsBackPlainText ==
    [][(/\ req'.op = "remove_file" /\ req'.a = S("products")
        /\ ProductsWritten /\ ~HasPaddedText(files["products"].xlsx)) =>
          /\ LoadProductsRaises(files') = LoadProductsRaises(files)
          /\ load_products(files') = load_products(files)]_vars

\* the file of a pair that a read is to use, alone: the xlsx file when it is
\* there and parses, else the csv file when it is there and parses, else none
FileToRead(pair) ==
    IF pair.xlsx.st = "ok" THEN [xlsx |-> pair.xlsx, csv |-> AbsentFile]
    ELSE IF pair.csv.st = "ok" THEN [xlsx |-> AbsentFile, csv |-> pair.csv]
    ELSE [xlsx |-> AbsentFile, csv |-> AbsentFile]

\* the rows of the file of a pair that a read is to use
RowsToRead(pair) ==
    IF pair.xlsx.st = "ok" THEN pair.xlsx.rows
    ELSE IF pair.csv.st = "ok" THEN pair.csv.rows
    ELSE <<>>

Unreadable(pair) == pair.xlsx.st # "ok" /\ pair.csv.st # "ok"

\* C13: a read of an entity gives the records of the xlsx file when that is
\* there and parses, else those of the csv file, else no data; the index page
\* never raises and lists exactly those suppliers, one for each row of that
\* file, and with both files missing or unreadable each loader returns the
\* empty list.
C13_ReadPrefersXlsxThenCsv ==
    /\ req.op = "index" =>
           /\ resp.kind = "index"
           /\ resp.rows =
                  load_suppliers([files EXCEPT !["suppliers"] = FileToRead(files["suppliers"])])
           /\ Unreadable(files["suppliers"]) => resp.rows = <<>>
    /\ load_clients(files) =
           load_clients([files EXCEPT !["clients"] = FileToRead(files["clients"])])
    /\ load_products(files) =
           load_products([files EXCEPT !["products"] = FileToRead(files["products"])])
    /\ req.op = "index" => Len(resp.rows) = Len(RowsToRead(files["suppliers"]))
    /\ Len(load_clients(files)) = Len(RowsToRead(files["clients"]))
    /\ ~LoadProductsRaises(files) =>
           Len(load_products(files)) = Len(RowsToRead(files["products"]))
    /\ Unreadable(files["clients"]) => load_clients(files) = <<>>
    /\ Unreadable(files["products"]) =>
           load_products(files) = <<>> /\ ~LoadProductsRaises(files)

\* C13 witness: the index page has listed the two seeded suppliers from the
\* csv file while the xlsx file does not parse.
C13_Witness ==
    /\ req.op = "index"
    /\ files["suppliers"].xlsx.st = "corrupt" /\ files["suppliers"].csv.st = "ok"
    /\ Len(resp.rows) = 2
    /\ resp.rows[1].id = <<"forn1">>

\* both threads have returned from an import of the same entity
BothFinished ==
    /\ \A t \in Threads : inflight[t].pc = "done"
    /\ inflight[1].e = inflight[2].e

\* the stored pair of an entity is what one writer alone leaves of its sheet
LeftBy(t) ==
    /\ files[inflight[t].e].xlsx = ToExcel(inflight[t].df)
    /\ files[inflight[t].e].csv = ToCsv(inflight[t].df)

\* C14 (as stated): once two writers of the same entity have both finished,
\* the xlsx and the csv file both hold the dataset of one of them.
C14_RaceLeavesOneWriter == BothFinished => \E t \in Threads : LeftBy(t)

\* What holds of C14: each of the two files, taken alone, holds the dataset of
\* one of the two writers.
RaceLeavesWrittenFiles ==
    BothFinished =>
        /\ \E t \in Threads : files[inflight[t].e].xlsx = ToExcel(inflight[t].df)
        /\ \E t \in Threads : files[inflight[t].e].csv = ToCsv(inflight[t].df)

\* the stored administrator record before a request, the fixed default when
\* admin.json does not exist
StoredAdminEmail == IF admin.exists THEN admin.email ELSE <<"swinck@gmail.com">>
StoredAdminPassword == IF admin.exists THEN admin.password ELSE <<"123456">>

\* what the account form hands to save_admin for a field: its text without
\* surrounding whitespace, the empty text when the field is not submitted
ArgOf(x) == IF x.k = "str" THEN Strip(x.s) ELSE <<>>

Supplied(x) == ArgOf(x) # <<>>

\* C15: when the administrator's account form reaches save_admin, the stored
\* email changes only to a non-empty submitted email and the stored password
\* only to a non-empty submitted password; a field submitted empty or not at
\* all keeps its stored value, the fixed default when no record existed.
C15_SaveAdminKeepsUnsuppliedFields ==
    [][(req'.op = "account_submit" /\ resp'.flash = "Dados do administrador atualizados.") =>
          /\ admin'.exists
          /\ admin'.email =
                 (IF Supplied(req'.a.email) THEN ArgOf(req'.a.email) ELSE StoredAdminEmail)
          /\ admin'.password =
                 (IF Supplied(req'.a.password) THEN ArgOf(req'.a.password)
                  ELSE StoredAdminPassword)]_vars

\* C15 witness: the administrator has submitted a new password with an empty
\* email; the stored email is the default and the password the new one.
C15_Witness ==
    /\ req.op = "account_submit" /\ resp.flash = "Dados do administrador atualizados."
    /\ req.a.email = Str(<<>>) /\ req.a.password = S("nova")
    /\ admin.email = <<"swinck@gmail.com">> /\ admin.password = <<"nova">>

ExportOps == {"export_cart_csv", "export_cart_xlsx", "export_cart_pdf"}

\* an export changes nothing of the session and no entity file
ExportKeeps ==
    /\ cart' = cart /\ coupon_code' = coupon_code /\ shipping_value' = shipping_value
    /\ user_email' = user_email /\ files' = files

\* C16 (as stated): an export of an empty cart is answered with the
\* cart-is-empty message and no file, never an error; an export of any cart
\* leaves the cart, the coupon, the shipping value and the entity files as
\* they were.
C16_EmptyCartExportReported ==
    [][req'.op \in ExportOps =>
          /\ cart = <<>> => (resp'.kind = "redirect" /\ resp'.flash = "Carrinho vazio.")
          /\ ExportKeeps]_vars

\* C16 (amended): the same, where the pdf export without reportlab answers
\* with the missing-dependency message instead.
C16_EmptyCartExportMessage ==
    [][req'.op \in ExportOps =>
          /\ cart = <<>> =>
                 /\ resp'.kind = "redirect"
                 /\ \/ resp'.flash = "Carrinho vazio."
                    \/ /\ req'.op = "export_cart_pdf"
                       /\ resp'.flash = "Dependencia de PDF ausente. Instale 'reportlab'."
          /\ ExportKeeps]_vars

\* C16 witness: the pdf export of a cart that was emptied, with a coupon and
\* a shipping value in the session, was answered with the cart-is-empty
\* message.
C16_Witness ==
    /\ req.op = "export_cart_pdf" /\ cart = <<>>
    /\ resp.flash = "Carrinho vazio."
    /\ coupon_code = S("DESCONTO10") /\ shipping_value = Num(500)

\* the session passes the administrator gate
PassesGate == ~RequireAdminFails(user_email, files, admin)

\* the request is a login with the stored administrator email and password
AdminLogin(r) ==
    /\ r.op = "login_submit"
    /\ r.a = Str(StoredAdminEmail) /\ r.b = Str(StoredAdminPassword)

\* C17 (as stated): a session that does not pass the administrator gate comes
\* to pass it only by a login with the administrator's email and password.
C17_GateOnlyAfterAdminLogin ==
    [][(~PassesGate /\ PassesGate' /\ req'.op # "remove_admin_file") => AdminLogin(req')]_vars

\* What holds of C17: a session that passes the gate holds the stored
\* administrator email as its user_email, however it came to hold it.
GateMeansAdminEmail == PassesGate => user_email = Str(StoredAdminEmail)

\* the rows of the stored products as a read returns them
StoredProductRows == _read_tabular(files["products"]).rows

\* a cell that holds a number, as a number or as the text of one
HoldsNumber(c) == c.k = "num" \/ (c.k = "str" /\ IsNumText(c.s))

NumberIn(c) == IF c.k = "num" THEN c.v ELSE NumOfText(c.s)

\* C18 (as stated): load_products never raises and returns one record per
\* stored row; the price of a record is the number in the price cell, and 0.0
\* when the cell is absent, empty or holds no number; the promo_price is
\* absent when its cell is absent, empty or holds no number.
C18_PriceDefaultsToZero ==
    /\ ~LoadProductsRaises(files)
    /\ (req.op = "supplier_catalog" /\ req.b \in {None, S("1"), S("2")}) =>
           resp.kind = "supplier"
    /\ Len(load_products(files)) = Len(StoredProductRows)
    /\ \A i \in 1..Len(StoredProductRows) :
           LET row == StoredProductRows[i]
               price == IF "price" \in DOMAIN row THEN row["price"] ELSE None
               promo == IF "promo_price" \in DOMAIN row THEN row["promo_price"] ELSE None
           IN  /\ load_products(files)[i].price =
                      (IF HoldsNumber(price) THEN Num(NumberIn(price)) ELSE Num(0))
               /\ load_products(files)[i].promo_price =
                      (IF HoldsNumber(promo) THEN Num(NumberIn(promo)) ELSE None)

\* What holds of C18: the promo_price of every stored row is converted as
\* stated, whether or not the prices are.
PromoPriceAbsentWhenUnusable ==
    \A i \in 1..Len(StoredProductRows) :
        LET row == StoredProductRows[i]
            promo == IF "promo_price" \in DOMAIN row THEN row["promo_price"] ELSE None
        IN  load_products(files)[i].promo_price =
                (IF HoldsNumber(promo) THEN Num(NumberIn(promo)) ELSE None)

\* the first record of the list with the id, in stored order
FirstProductById(plist, pid) ==
    plist[CHOOSE i \in 1..Len(plist) :
            plist[i].id = pid /\ \A j \in 1..(i - 1) : plist[j].id # pid]

\* the cart page just rendered, and the records it was priced from
CartPageShown == req.op = "view_cart" /\ resp.kind = "cart"

\* C19 (as stated): every line of the rendered cart is priced from the first
\* stored record with the entry's id, and an entry whose id has no record has
\* no line.
C19_LookupReturnsFirstMatch ==
    CartPageShown =>
        /\ \A i \in 1..Len(resp.view.items) :
               /\ resp.view.items[i].pid \in ProductIds(load_products(files))
               /\ resp.view.items[i].price =
                      EffectivePrice(FirstProductById(load_products(files),
                                                      resp.view.items[i].pid))
        /\ Len(resp.view.items) = Len(Resolved(load_products(files), cart))

\* What holds of C19: an entry whose id has no record has no line, and an
\* entry whose id has exactly one record is priced from it.
LookupOfUniqueIdReturnsIt ==
    CartPageShown =>
        /\ \A i \in 1..Len(resp.view.items) :
               LET plist == load_products(files)
                   pid == resp.view.items[i].pid
               IN  /\ pid \in ProductIds(plist)
                   /\ Cardinality({j \in 1..Len(plist) : plist[j].id = pid}) = 1 =>
                          resp.view.items[i].price =
                              EffectivePrice(FirstProductById(plist, pid))
        /\ Len(resp.view.items) = Len(Resolved(load_products(files), cart))

\* the pdf file just produced
PdfProduced == req.op = "export_cart_pdf" /\ resp.kind = "pdf"

\* C20 (as stated): every item line and the final total line of the pdf is
\* drawn at a vertical position of at least the 60-point bottom margin.
C20_PdfLinesAboveBottomMargin ==
    PdfProduced => \A i \in 1..Len(resp.rows) : resp.rows[i].line.y >= BottomMargin

\* What holds of C20: every item line is drawn at or above the bottom margin,
\* and the total line at most one item step and one total step below it.
PdfItemLinesAboveBottomMargin ==
    PdfProduced =>
        \A i \in 1..Len(resp.rows) :
            IF resp.rows[i].line.kind = "item"
            THEN resp.rows[i].line.y >= BottomMargin
            ELSE resp.rows[i].line.y >= BottomMargin - ItemStep - TotalStep

\* the product record a resolved cart entry is priced from
RecordOf(e) == ProductsGet(load_products(files), e.pid)

\* the lines the cart stands for: one for each entry whose product id is in
\* the catalog, in cart order, with its quantity, unit price and line total
CartLines ==
    [i \in 1..Len(ResolvedEntries) |->
        [qty |-> ResolvedEntries[i].qty,
         price |-> EffectivePrice(RecordOf(ResolvedEntries[i])),
         line_total |-> FMulInt(EffectivePrice(RecordOf(ResolvedEntries[i])),
                                ResolvedEntries[i].qty)]]

\* the lines of the rendered cart and of the three files
ViewLines ==
    [i \in 1..Len(resp.view.items) |->
        [qty |-> resp.view.items[i].qty, price |-> resp.view.items[i].price,
         line_total |-> resp.view.items[i].line_total]]

XlsxLines ==
    [i \in 1..Len(resp.rows) |->
        [qty |-> resp.rows[i].Quantidade, price |-> resp.rows[i].Preco,
         line_total |-> resp.rows[i].Total]]

CsvLines ==
    [i \in 1..Len(resp.rows) |->
        [qty |-> resp.rows[i].Quantidade, price |-> resp.rows[i].PrecoUnitario,
         line_total |-> resp.rows[i].TotalLinha]]

\* the item lines of the pdf: all rows but the last, which is the total
PdfItemLines ==
    [i \in 1..(Len(resp.rows) - 1) |->
        [qty |-> resp.rows[i].item.qty, price |-> resp.rows[i].item.price,
         line_total |-> resp.rows[i].item.line_total]]

\* the lines with their amounts written as the csv file writes them
AsCsvText(lines) ==
    [i \in 1..Len(lines) |->
        [qty |-> lines[i].qty, price |-> FormatMoney(lines[i].price),
         line_total |-> FormatMoney(lines[i].line_total)]]

\* C21: the rendered cart and the xlsx, csv and pdf files each hold exactly
\* the lines of the cart: one per entry with a resolved product, in cart
\* order, with the same quantity, unit price and line total, the entries with
\* unresolved product ids skipped.
C21_ViewAndExportsSameLines ==
    /\ CartPageShown => ViewLines = CartLines
    /\ (req.op = "export_cart_xlsx" /\ resp.kind = "xlsx") => XlsxLines = CartLines
    /\ (req.op = "export_cart_csv" /\ resp.kind = "csv") => CsvLines = AsCsvText(CartLines)
    /\ PdfProduced => PdfItemLines = CartLines

\* C21 witness: the csv file of a cart of two entries, one of them for a
\* product id that is not in the catalog, holds one line, for two units.
C21_Witness ==
    /\ req.op = "export_cart_csv" /\ resp.kind = "csv"
    /\ Len(cart) = 2 /\ Len(resp.rows) = 1
    /\ resp.rows[1].Quantidade = 2
    /\ \E i \in 1..2 : ~Resolves(cart[i].pid)

\* the session has a current user: its user_email is the administrator's
\* email or the email of a stored client
SessionHasUser ==
    /\ user_email.k = "str" /\ user_email.s # <<>>
    /\ \/ user_email.s = (IF admin.exists THEN admin.email ELSE DefaultAdmin.email)
       \/ \E i \in 1..Len(load_clients(files)) : load_clients(files)[i].email = user_email.s

\* every entry of the cart before the step is an entry of the cart after it
KeepsEntries == \A i \in 1..Len(cart) : \E j \in 1..Len(cart') : cart'[j].pid = cart[i].pid

\* C22: checkout_submit empties the cart exactly when the session has a
\* current user and leaves it as it was otherwise, never changing user_email;
\* no request other than checkout_submit and cart_remove removes an entry of
\* the cart, and login and logout leave the cart as it was.
C22_CheckoutAloneClearsCart ==
    [][/\ req'.op = "checkout_submit" =>
              /\ user_email' = user_email
              /\ cart' = (IF SessionHasUser THEN <<>> ELSE cart)
       /\ req'.op \notin {"checkout_submit", "cart_remove"} => KeepsEntries
       /\ req'.op \in {"login_submit", "logout"} => cart' = cart]_vars

\* C22 witness: a checkout from a session whose client is no longer stored
\* has left the cart with its entries.
C22_Witness ==
    /\ req.op = "checkout_submit"
    /\ user_email = S("demo@teste.com") /\ ~SessionHasUser
    /\ cart # <<>>

\* a form field as submitted, the empty text when it is not submitted
Submitted(form, key) == IF form[key].k = "none" THEN <<>> ELSE form[key].s

\* the request leaves the administrator record, the files of the entities
\* and the session's user_email as they were; admin.json, when it is missing,
\* may be created with the default record it is read as
PersistsNothing ==
    /\ load_admin(admin') = load_admin(admin)
    /\ admin.exists => admin' = admin
    /\ files' = files
    /\ user_email' = user_email

\* C23 (as stated): an account_submit whose password field is not empty and
\* differs from its password_confirm field persists nothing.
C23_MismatchPersistsNothing ==
    [][(/\ req'.op = "account_submit"
        /\ Submitted(req'.a, "password") # <<>>
        /\ Submitted(req'.a, "password") # Submitted(req'.a, "password_confirm"))
       => PersistsNothing]_vars

\* C23 (amended): an account_submit whose password field, stripped of
\* surrounding whitespace, is not empty and differs from its stripped
\* password_confirm field persists nothing.
C23_StrippedMismatchPersistsNothing ==
    [][(/\ req'.op = "account_submit"
        /\ Strip(Submitted(req'.a, "password")) # <<>>
        /\ Strip(Submitted(req'.a, "password")) # Strip(Submitted(req'.a, "password_confirm")))
       => PersistsNothing]_vars

\* C23 witness: a logged-in client has submitted a new name and email with a
\* password that differs from its confirmation and was refused; the stored
\* client still has the old email.
C23_Witness ==
    /\ req.op = "account_submit"
    /\ req.a.name = S("Novo Nome") /\ req.a.email = S("novo@teste.com")
    /\ req.a.password = S("nova") /\ req.a.password_confirm = S("outra")
    /\ resp.flash = "As senhas nao conferem."
    /\ user_email = S("demo@teste.com")
    /\ load_clients(files)[1].email = <<"demo@teste.com">>

\* the shipping form field holds the text of a number that is not negative
ShippingFieldIsAmount ==
    /\ req.a.k = "str"
    /\ IsNumText(Strip(req.a.s))
    /\ NumOfText(Strip(req.a.s)) >= 0

\* C24 (as stated): once a set_shipping request has been answered, the stored
\* shipping value is a number that is not negative, 0 when the field held a
\* negative number or no number; the shipping value of a rendered cart is a
\* number that is not negative.
C24_ShippingIsNumberNotNegative ==
    /\ shipping_value.k # "none" => (IsNum(shipping_value) /\ shipping_value.v >= 0)
    /\ req.op = "set_shipping" =>
           shipping_value = (IF ShippingFieldIsAmount THEN Num(NumOfText(Strip(req.a.s)))
                             ELSE Num(0))
    /\ Viewed => (IsNum(resp.view.shipping_value) /\ resp.view.shipping_value.v >= 0)

\* What holds of C24: the stored shipping value is never a negative number,
\* and a field that is missing, empty, negative or raises in float() stores 0.
StoredShippingNeverBelowZero ==
    /\ IsNum(shipping_value) => shipping_value.v >= 0
    /\ shipping_value.k \in {"none", "num", "nan"}
    /\ (req.op = "set_shipping" /\ shipping_value.k # "nan") =>
           shipping_value = (IF ShippingFieldIsAmount THEN Num(NumOfText(Strip(req.a.s)))
                             ELSE Num(0))

====
